---- MODULE Spec2Model ----
(***************************************************************************)
(* Model of the identifier-resolution and extraction pipeline of the       *)
(* paper extractor: extractor.py (annotate, fetch, resolve, process),      *)
(* help.py (remote identifier conversion, mapping import) and storage.py   *)
(* (publications table).                                                   *)
(*                                                                         *)
(* Python strings are TLA+ strings; a Python value that may be None is     *)
(* either the string None below (string-typed values) or a sequence of     *)
(* length 0 or 1 (record-typed values).  Every function that talks to a    *)
(* remote service returns, next to its Python result, the log of the       *)
(* requests and sleeps it performed.                                       *)
(***************************************************************************)
EXTENDS Integers, Sequences, FiniteSets, TLC

VARIABLES
    ENABLE_ENTITY_EXTRACTION,   \* config.py flag, fixed when the process starts
    mapping,                    \* table pmid_to_pmcid: <<>> when the table is absent, else <<[pmid -> pmcid]>>
    publications,               \* table publications: set of rows
    last,                       \* the last operation performed: its name, argument, result and log
    calls,                      \* number of operations performed so far
    batch,                      \* the watch folder and the handling of the batch file found in it
    inflight,                   \* the pipeline calls of concurrent callers, and the rows written
    api                         \* the request the HTTP layer is handling, and its response

vars == <<ENABLE_ENTITY_EXTRACTION, mapping, publications, last, calls, batch, inflight, api>>

(***************************************************************************)
(* Bounds of the environment.                                              *)
(***************************************************************************)
\* a remote service fails its first k requests of a call, 0 <= k <= MaxFails
MaxFails == 4
\* number of operations of a run
MaxCalls == 2
\* number of documents in a response handed to a direct fetch
MaxDocuments == 2
\* number of file-created events of a run of the watcher
MaxEvents == 2

(***************************************************************************)
(* Python string helpers.                                                  *)
(***************************************************************************)
None == "<None>"

LowerLetters == "abcdefghijklmnopqrstuvwxyz"
UpperLetters == "ABCDEFGHIJKLMNOPQRSTUVWXYZ"

\* str.upper() on one character: the table of the letters
UpperOf ==
    [c \in {SubSeq(LowerLetters, i, i) : i \in 1..Len(LowerLetters)} |->
        LET i == CHOOSE i \in 1..Len(LowerLetters) : SubSeq(LowerLetters, i, i) = c
        IN  SubSeq(UpperLetters, i, i)]

UpChar(c) == IF c \in DOMAIN UpperOf THEN UpperOf[c] ELSE c

RECURSIVE upper(_)
\* str.upper()
upper(s) ==
    IF s = "" THEN "" ELSE UpChar(SubSeq(s, 1, 1)) \o upper(SubSeq(s, 2, Len(s)))

\* str.startswith(prefix)
startswith(s, prefix) ==
    /\ Len(s) >= Len(prefix)
    /\ SubSeq(s, 1, Len(prefix)) = prefix

(***************************************************************************)
(* Log of the effects of a call: requests sent and sleeps taken.           *)
(***************************************************************************)
Request(kind, id) == [ev |-> kind, id |-> id, n |-> 0]
Sleep(n) == [ev |-> "sleep", id |-> "", n |-> n]

\* the events of a log of one kind
RECURSIVE SelectEv(_, _)
SelectEv(log, kind) ==
    IF log = <<>> THEN <<>>
    ELSE IF Head(log).ev = kind THEN <<Head(log)>> \o SelectEv(Tail(log), kind)
         ELSE SelectEv(Tail(log), kind)

(***************************************************************************)
(* The annotation service (BERN2).  A behaviour of the service during one  *)
(* call: it fails the first `fails' requests (transport error or           *)
(* non-success status) and answers every later one with `annotations'.     *)
(* An annotation is a record holding any subset of the keys mention, obj,  *)
(* id, span.                                                               *)
(***************************************************************************)
AnnotationSamples ==
    { << [mention |-> "IL-6", obj |-> "gene", id |-> <<"NCBIGene:3569", "MIM:147620">>,
          span |-> [begin |-> 0, end |-> 4]] >>,
      << [obj |-> "disease", id |-> <<>>, span |-> [begin |-> 5]],
         [mention |-> "TNF"] >> }

BernBehaviours == [fails : 0..MaxFails, annotations : AnnotationSamples]

\* the service answers at once, or not at all
BernOutcomes == {bern \in BernBehaviours : bern.fails \in {0, MaxFails}}

\* the behaviour of the service in a call that never consults it
BernQuiet == [fails |-> 0, annotations |-> <<>>]

BernResponse(bern, attempt) ==
    IF attempt <= bern.fails
    THEN [ok |-> FALSE, annotations |-> <<>>]
    ELSE [ok |-> TRUE, annotations |-> bern.annotations]

\* the derivation that has no defaults for the missing keys
Entity_bare(ann) ==
    LET span == IF "span" \in DOMAIN ann THEN ann.span ELSE <<>>
        id_list == IF "id" \in DOMAIN ann THEN ann.id ELSE <<>>
    IN  [text       |-> IF "mention" \in DOMAIN ann THEN ann.mention ELSE None,
         type       |-> IF "obj" \in DOMAIN ann THEN ann.obj ELSE None,
         identifier |-> IF id_list # <<>> /\ Len(id_list) > 0 THEN id_list[1] ELSE None,
         start      |-> IF "begin" \in DOMAIN span THEN span.begin ELSE None,
         end        |-> IF "end" \in DOMAIN span THEN span.end ELSE None]

\* extractor.py:41-54, one annotation of the response to one entity
Entity(ann) ==
    LET span == IF "span" \in DOMAIN ann THEN ann.span ELSE <<>>
        id_list == IF "id" \in DOMAIN ann THEN ann.id ELSE <<>>
    IN  [text       |-> IF "mention" \in DOMAIN ann THEN ann.mention ELSE "",
         type       |-> IF "obj" \in DOMAIN ann THEN ann.obj ELSE "unknown",
         identifier |-> IF id_list # <<>> /\ Len(id_list) > 0 THEN id_list[1] ELSE None,
         start      |-> IF "begin" \in DOMAIN span THEN span.begin ELSE 0,
         end        |-> IF "end" \in DOMAIN span THEN span.end ELSE 0]

Entities(annotations) == [i \in 1..Len(annotations) |-> Entity(annotations[i])]

\* extractor.py:18, default of max_retries
BernMaxRetries == 3
\* extractor.py:23, minimum caption length
MinCaptionLen == 20
\* extractor.py:62, time.sleep(2 * (attempt + 1))
BernDelay(attempt) == 2 * (attempt + 1)

RECURSIVE BernAttempts(_, _, _, _)
\* extractor.py:32-65, the retry loop from `attempt' (0-based) on
BernAttempts(caption, max_retries, bern, attempt) ==
    IF attempt >= max_retries
    THEN [ret |-> <<>>, log |-> <<>>]
    ELSE LET response == BernResponse(bern, attempt + 1)
         IN  IF response.ok
             THEN [ret |-> Entities(response.annotations),
                   log |-> <<Request("bern", caption)>>]
             ELSE LET rest == BernAttempts(caption, max_retries, bern, attempt + 1)
                  IN  [ret |-> rest.ret,
                       log |-> <<Request("bern", caption), Sleep(BernDelay(attempt))>> \o rest.log]

\* the annotator without the test of the configuration flag
fetch_entities_from_bern_always(caption, bern) ==
    IF Len(caption) < MinCaptionLen THEN [ret |-> <<>>, log |-> <<>>]
    ELSE BernAttempts(caption, BernMaxRetries, bern, 0)

\* the annotator with the length test one character lower
fetch_entities_from_bern_shorter(caption, bern) ==
    IF ~ENABLE_ENTITY_EXTRACTION THEN [ret |-> <<>>, log |-> <<>>]
    ELSE IF Len(caption) < MinCaptionLen - 1 THEN [ret |-> <<>>, log |-> <<>>]
    ELSE BernAttempts(caption, BernMaxRetries, bern, 0)

\* the annotator with one more attempt
fetch_entities_from_bern_four(caption, bern) ==
    IF ~ENABLE_ENTITY_EXTRACTION THEN [ret |-> <<>>, log |-> <<>>]
    ELSE IF Len(caption) < MinCaptionLen THEN [ret |-> <<>>, log |-> <<>>]
    ELSE BernAttempts(caption, BernMaxRetries + 1, bern, 0)

\* extractor.py:18-65
fetch_entities_from_bern(caption, bern) ==
    IF ~ENABLE_ENTITY_EXTRACTION THEN [ret |-> <<>>, log |-> <<>>]
    ELSE IF Len(caption) < MinCaptionLen THEN [ret |-> <<>>, log |-> <<>>]
    ELSE BernAttempts(caption, BernMaxRetries, bern, 0)

(***************************************************************************)
(* The remote identifier-conversion service (NCBI idconv).  It fails the   *)
(* first `fails' requests of a call with a RequestException and answers    *)
(* every later one with the list `records'; a record is the pmcid it       *)
(* carries, or None when it has no "pmcid" key.                            *)
(***************************************************************************)
RecordSamples == { <<>>, <<None, "PMC1">> }

ConvBehaviours == [fails : 0..MaxFails, records : RecordSamples]

\* the service answers at once, or not at all
ConvOutcomes == {conv \in ConvBehaviours : conv.fails \in {0, MaxFails}}

\* the behaviour of the service in a call that never consults it
ConvQuiet == [fails |-> 0, records |-> <<>>]

ConvResponse(conv, attempt) ==
    IF attempt <= conv.fails
    THEN [ok |-> FALSE, records |-> <<>>]
    ELSE [ok |-> TRUE, records |-> conv.records]

\* help.py:192
ConvMaxRetries == 3
\* help.py:193
ConvInitialDelay == 2

RECURSIVE FirstPmcid(_)
\* help.py:203-209, the pmcid of the first record that has one
FirstPmcid(records) ==
    IF records = <<>> THEN None
    ELSE IF Head(records) # None THEN Head(records)
         ELSE FirstPmcid(Tail(records))

RECURSIVE ConvAttempts(_, _, _, _, _)
\* help.py:195-219, the retry loop from `attempt' (0-based) on
ConvAttempts(pmid, max_retries, conv, attempt, retry_delay) ==
    IF attempt >= max_retries
    THEN [ret |-> None, log |-> <<>>]
    ELSE LET response == ConvResponse(conv, attempt + 1)
         IN  IF response.ok
             THEN [ret |-> FirstPmcid(response.records),
                   log |-> <<Request("idconv", pmid)>>]
             ELSE IF attempt < max_retries - 1
                  THEN LET rest == ConvAttempts(pmid, max_retries, conv, attempt + 1,
                                                retry_delay * 2)
                       IN  [ret |-> rest.ret,
                            log |-> <<Request("idconv", pmid), Sleep(retry_delay)>> \o rest.log]
                  ELSE [ret |-> None, log |-> <<Request("idconv", pmid)>>]

\* the conversion with one more attempt
convert_pmid_to_pmcid_four(pmid, conv) ==
    ConvAttempts(pmid, ConvMaxRetries + 1, conv, 0, ConvInitialDelay)

\* help.py:173-219
convert_pmid_to_pmcid(pmid, conv) ==
    ConvAttempts(pmid, ConvMaxRetries, conv, 0, ConvInitialDelay)

(***************************************************************************)
(* The mapping table pmid_to_pmcid.                                        *)
(***************************************************************************)
Whitespace == {" ", "\t", "\n", "\r"}

RECURSIVE lstrip(_)
lstrip(s) ==
    IF s # "" /\ SubSeq(s, 1, 1) \in Whitespace THEN lstrip(SubSeq(s, 2, Len(s))) ELSE s

RECURSIVE rstrip(_)
rstrip(s) ==
    IF s # "" /\ SubSeq(s, Len(s), Len(s)) \in Whitespace
    THEN rstrip(SubSeq(s, 1, Len(s) - 1)) ELSE s

\* str.strip()
strip(s) == rstrip(lstrip(s))

\* sub in s
Contains(s, sub) ==
    \E i \in 1..(Len(s) - Len(sub) + 1) : SubSeq(s, i, i + Len(sub) - 1) = sub

RECURSIVE replace(_, _, _)
\* str.replace(old, new), old not empty
replace(s, old, new) ==
    IF Len(s) < Len(old) THEN s
    ELSE IF SubSeq(s, 1, Len(old)) = old
         THEN new \o replace(SubSeq(s, Len(old) + 1, Len(s)), old, new)
         ELSE SubSeq(s, 1, 1) \o replace(SubSeq(s, 2, Len(s)), old, new)

RECURSIVE split(_, _)
\* str.split(sep), sep one character
split(s, sep) ==
    IF ~Contains(s, sep) THEN <<s>>
    ELSE LET i == CHOOSE i \in 1..Len(s) :
                      /\ SubSeq(s, i, i) = sep
                      /\ \A j \in 1..(i - 1) : SubSeq(s, j, j) # sep
         IN  <<SubSeq(s, 1, i - 1)>> \o split(SubSeq(s, i + 1, Len(s)), sep)

Digits == {"0", "1", "2", "3", "4", "5", "6", "7", "8", "9"}

RECURSIVE LeadingDigits(_)
\* the longest prefix of s made of digits
LeadingDigits(s) ==
    IF s # "" /\ SubSeq(s, 1, 1) \in Digits
    THEN SubSeq(s, 1, 1) \o LeadingDigits(SubSeq(s, 2, Len(s)))
    ELSE ""

\* re.findall(r'PMC(\d+)', line)[0] when there is a match, else None
FirstPMCNumber(line) ==
    LET Match(i) == /\ SubSeq(line, i, i + 2) = "PMC"
                    /\ LeadingDigits(SubSeq(line, i + 3, Len(line))) # ""
        starts == {i \in 1..(Len(line) - 3) : Match(i)}
    IN  IF starts = {} THEN None
        ELSE LET i == CHOOSE i \in starts : \A j \in starts : i <= j
             IN  LeadingDigits(SubSeq(line, i + 3, Len(line)))

\* a lookup that never finds a row
get_pmcid_from_database_miss(pmid) == None

\* extractor.py:280-322
get_pmcid_from_database(pmid) ==
    IF mapping = <<>> THEN None
    ELSE LET table == mapping[1]
         IN  IF strip(pmid) \in DOMAIN table
             THEN LET pmcid == table[strip(pmid)]
                  IN  IF ~startswith(upper(pmcid), "PMC") THEN "PMC" \o pmcid ELSE pmcid
             ELSE None

\* help.py:66-108, one data line: the mapping it yields (<<pmid, pmcid>>),
\* or <<>> when it counts as an error
ParseMappingLine(line) ==
    LET parts == split(line, "\t")
    IN  IF Len(parts) >= 4 /\ Contains(parts[4], "PMID:")
        THEN LET pmid == strip(replace(parts[4], "PMID:", ""))
                 pmcid == strip(parts[3])
             IN  <<pmid, IF ~startswith(pmcid, "PMC") THEN "PMC" \o pmcid ELSE pmcid>>
        ELSE IF Len(parts) >= 2 /\ startswith(upper(strip(parts[2])), "PMC")
        THEN LET pmid == strip(parts[1])
                 pmcid == upper(strip(parts[2]))
             IN  <<pmid, IF ~startswith(pmcid, "PMC") THEN "PMC" \o pmcid ELSE pmcid>>
        ELSE IF Contains(line, "PMC")
        THEN LET number == FirstPMCNumber(line)
             IN  IF number # None THEN <<number, "PMC" \o number>> ELSE <<>>
        ELSE <<>>

RECURSIVE ImportLines(_, _)
\* help.py:60-129, the loop over the data lines; acc holds the table, the
\* count of mappings and the count of errors so far
ImportLines(lines, acc) ==
    IF lines = <<>> THEN acc
    ELSE LET line == strip(Head(lines))
         IN  IF line = "" \/ startswith(line, "#")
             THEN ImportLines(Tail(lines), acc)
             ELSE LET parsed == ParseMappingLine(line)
                  IN  IF parsed = <<>>
                      THEN ImportLines(Tail(lines), [acc EXCEPT !.errors = @ + 1])
                      ELSE ImportLines(Tail(lines),
                               [table  |-> [pmid \in DOMAIN acc.table \cup {parsed[1]} |->
                                               IF pmid = parsed[1] THEN parsed[2]
                                               ELSE acc.table[pmid]],
                                count  |-> acc.count + 1,
                                errors |-> acc.errors])

\* the empty table
NoRows == [pmid \in {} |-> ""]

\* help.py:11-140.  file is <<>> when the path does not exist, else <<lines>>.
\* The result: the returned count, the count of errors, and the mapping
\* table after the call
build_pmid_to_pmcid_mapping(file) ==
    IF file = <<>> THEN [ret |-> 0, errors |-> 0, mapping |-> mapping]
    ELSE LET lines == file[1]
             first_line == IF lines = <<>> THEN "" ELSE strip(Head(lines))
             data == IF ~startswith(first_line, "oa_package")
                     THEN IF lines = <<>> THEN <<>> ELSE Tail(lines)
                     ELSE lines
             done == ImportLines(data, [table |-> NoRows, count |-> 0, errors |-> 0])
         IN  [ret |-> done.count, errors |-> done.errors, mapping |-> <<done.table>>]

\* help.py:365-390; a missing table raises inside the try and gives None
lookup_pmcid(pmid) ==
    IF mapping = <<>> THEN None
    ELSE IF pmid \in DOMAIN mapping[1] THEN mapping[1][pmid] ELSE None

(***************************************************************************)
(* The remote document service (BioC).  A response body is a collection:   *)
(* collection-level infons, then documents; a document has infons and      *)
(* passages; a passage has infons and a text.  An infon is a key and a     *)
(* text; the text of an empty or missing element is None.                  *)
(***************************************************************************)
Infon(key, text) == [key |-> key, text |-> text]
Passage(infons, text) == [infons |-> infons, text |-> text]
Document(infons, passages) == [infons |-> infons, passages |-> passages]
Collection(infons, documents) == [infons |-> infons, documents |-> documents]

\* Python truthiness of an optional string
Truthy(text) == text # None /\ text # ""

RECURSIVE SelectPassages(_, _, _)
\* document.findall(".//passage/infon[@key=K][.=V]/.."): the passages having
\* such an infon, each once, in document order
SelectPassages(passages, key, value) ==
    IF passages = <<>> THEN <<>>
    ELSE LET p == Head(passages)
             rest == SelectPassages(Tail(passages), key, value)
         IN  IF \E i \in 1..Len(p.infons) : p.infons[i].key = key /\ p.infons[i].text = value
             THEN <<p>> \o rest
             ELSE rest

RECURSIVE FirstText(_, _)
\* extractor.py:148-153: the text of the first element that has one, else `title'
FirstText(elements, title) ==
    IF elements = <<>> THEN title
    ELSE IF Truthy(Head(elements).text) THEN Head(elements).text
         ELSE FirstText(Tail(elements), title)

RECURSIVE JoinTexts(_, _)
\* extractor.py:159-165
JoinTexts(elements, abstract) ==
    IF elements = <<>> THEN abstract
    ELSE LET text == Head(elements).text
         IN  IF Truthy(text)
             THEN JoinTexts(Tail(elements),
                            IF abstract # "" THEN abstract \o " " \o text ELSE text)
             ELSE JoinTexts(Tail(elements), abstract)

RECURSIVE LastUrl(_, _)
\* extractor.py:180-182: the text of the last infon keyed url, file or fig_url
LastUrl(infons, figure_url) ==
    IF infons = <<>> THEN figure_url
    ELSE LastUrl(Tail(infons),
                 IF Head(infons).key \in {"url", "file", "fig_url"}
                 THEN Head(infons).text ELSE figure_url)

RECURSIVE FiguresOf(_, _)
\* extractor.py:173-189: the figures of the selected passages, and the log of
\* the annotation calls made for them
FiguresOf(elements, bern) ==
    IF elements = <<>> THEN [figures |-> <<>>, log |-> <<>>]
    ELSE LET fig_elem == Head(elements)
             rest == FiguresOf(Tail(elements), bern)
         IN  IF Truthy(fig_elem.text)
             THEN LET entities == fetch_entities_from_bern(fig_elem.text, bern)
                  IN  [figures |-> << [caption  |-> fig_elem.text,
                                       url      |-> LastUrl(fig_elem.infons, None),
                                       entities |-> entities.ret] >> \o rest.figures,
                       log |-> entities.log \o rest.log]
             ELSE rest

RECURSIVE FirstArticleTitle(_, _)
\* extractor.py:193-196 and 200-202: the text of the first article-title infon
FirstArticleTitle(infons, title) ==
    IF infons = <<>> THEN title
    ELSE IF Head(infons).key = "article-title" THEN Head(infons).text
         ELSE FirstArticleTitle(Tail(infons), title)

RECURSIVE ParseDocuments(_, _, _)
\* extractor.py:143-196, the loop over the documents; acc holds title,
\* abstract, figures and the log so far
ParseDocuments(documents, acc, bern) ==
    IF documents = <<>> THEN acc
    ELSE LET document == Head(documents)
             title_elements ==
                 SelectPassages(document.passages, "section_type", "TITLE")
                     \o SelectPassages(document.passages, "type", "title")
             title1 == FirstText(title_elements, acc.title)
             abstract_elements ==
                 SelectPassages(document.passages, "section_type", "ABSTRACT")
                     \o SelectPassages(document.passages, "type", "abstract")
             abstract1 == JoinTexts(abstract_elements, acc.abstract)
             figure_elements ==
                 SelectPassages(document.passages, "section_type", "FIG")
                     \o SelectPassages(document.passages, "section_type", "FIGURE")
                     \o SelectPassages(document.passages, "type", "fig")
                     \o SelectPassages(document.passages, "type", "figure-caption")
             figs == FiguresOf(figure_elements, bern)
             title2 == IF ~Truthy(title1)
                       THEN FirstArticleTitle(document.infons, title1)
                       ELSE title1
         IN  ParseDocuments(Tail(documents),
                            [title    |-> title2,
                             abstract |-> abstract1,
                             figures  |-> acc.figures \o figs.figures,
                             log      |-> acc.log \o figs.log],
                            bern)

RECURSIVE AllInfons(_)
\* the infons of the documents and of their passages, in document order
AllInfons(documents) ==
    IF documents = <<>> THEN <<>>
    ELSE LET RECURSIVE PassageInfons(_)
             PassageInfons(passages) ==
                 IF passages = <<>> THEN <<>>
                 ELSE Head(passages).infons \o PassageInfons(Tail(passages))
         IN  Head(documents).infons \o PassageInfons(Head(documents).passages)
                 \o AllInfons(Tail(documents))

\* extractor.py:104, the case-sensitive prefix test of the fetch
HasPMCPrefix(pmc_id) == startswith(pmc_id, "PMC")

\* extractor.py:198-229: the root-level title fallback and the result, from
\* what the loop over the documents gathered
BuildPaper(pmc_id, root, parsed) ==
    LET request == <<Request("bioc", pmc_id)>>
        title == IF ~Truthy(parsed.title)
                 THEN FirstArticleTitle(root.infons \o AllInfons(root.documents),
                                        parsed.title)
                 ELSE parsed.title
    IN  IF title = None
        THEN \* len(title) at line 205 raises, caught at line 227
             [ret |-> <<>>, log |-> request \o parsed.log]
        ELSE IF title # "" \/ parsed.abstract # "" \/ parsed.figures # <<>>
             THEN [ret |-> << [pmcid    |-> pmc_id,
                               title    |-> title,
                               abstract |-> parsed.abstract,
                               figures  |-> parsed.figures] >>,
                   log |-> request \o parsed.log]
             ELSE [ret |-> <<>>, log |-> request \o parsed.log]

\* extractor.py:94-229 (format "xml").  http is the answer of the document
\* service: kind "ok" with a body, or "not_found" (a non-success status)
fetch_bioc_paper(pmc_id0, http, bern) ==
    LET pmc_id == IF ~HasPMCPrefix(pmc_id0) THEN "PMC" \o pmc_id0 ELSE pmc_id0
    IN  IF http.kind # "ok" THEN [ret |-> <<>>, log |-> <<Request("bioc", pmc_id)>>]
        ELSE BuildPaper(pmc_id, http.body,
                        ParseDocuments(http.body.documents,
                            [title |-> "", abstract |-> "", figures |-> <<>>, log |-> <<>>],
                            bern))

(***************************************************************************)
(* The publications table (storage.py).                                    *)
(***************************************************************************)
\* json.dumps of a list of dicts of strings, integers, None and lists: the
\* value itself, json.loads gives it back
json_dumps(figures) == figures

\* a plain INSERT into a table without primary key
insert_paper_append(table, data, db_ok) ==
    IF db_ok
    THEN table \cup { [pmcid        |-> data.pmcid,
                       title        |-> data.title,
                       abstract     |-> data.abstract,
                       figures_json |-> json_dumps(data.figures)] }
    ELSE table

\* storage.py:29-40; db_ok is FALSE when conn.execute raises, which the
\* function logs and swallows
insert_paper(table, data, db_ok) ==
    IF db_ok
    THEN {row \in table : row.pmcid # data.pmcid}
             \cup { [pmcid        |-> data.pmcid,
                     title        |-> data.title,
                     abstract     |-> data.abstract,
                     figures_json |-> json_dumps(data.figures)] }
    ELSE table

(***************************************************************************)
(* The pipeline (extractor.py:325-384).                                    *)
(***************************************************************************)
\* the test without the upper()
IsPMCID_sensitive(paper_id) == startswith(paper_id, "PMC")

\* extractor.py:334, the test that takes an identifier for a PMCID
IsPMCID(paper_id) == startswith(upper(paper_id), "PMC")

\* the resolution falling back to the raw identifier when no mapping is found
ResolveStep_fabricate(raw, conv) ==
    LET step1 ==
            IF ~IsPMCID(raw)
            THEN LET db_pmcid == get_pmcid_from_database(raw)
                 IN  IF Truthy(db_pmcid)
                     THEN [raised |-> FALSE, pmc_id |-> db_pmcid, log |-> <<>>,
                           mapping |-> mapping]
                     ELSE LET api_pmcid == convert_pmid_to_pmcid(raw, conv)
                          IN  IF Truthy(api_pmcid.ret)
                              THEN [raised |-> FALSE, pmc_id |-> api_pmcid.ret,
                                    log |-> api_pmcid.log, mapping |-> mapping]
                              ELSE [raised |-> FALSE, pmc_id |-> raw,
                                    log |-> api_pmcid.log, mapping |-> mapping]
            ELSE [raised |-> FALSE, pmc_id |-> raw, log |-> <<>>, mapping |-> mapping]
    IN  IF ~step1.raised /\ ~IsPMCID(step1.pmc_id)
        THEN [step1 EXCEPT !.pmc_id = "PMC" \o step1.pmc_id]
        ELSE step1

\* the resolution writing a converted identifier back to the mapping table
ResolveStep_cache(raw, conv) ==
    LET table == IF mapping = <<>> THEN NoRows ELSE mapping[1]
        step1 ==
            IF ~IsPMCID(raw)
            THEN LET db_pmcid == get_pmcid_from_database(raw)
                 IN  IF Truthy(db_pmcid)
                     THEN [raised |-> FALSE, pmc_id |-> db_pmcid, log |-> <<>>,
                           mapping |-> mapping]
                     ELSE LET api_pmcid == convert_pmid_to_pmcid(raw, conv)
                          IN  IF Truthy(api_pmcid.ret)
                              THEN [raised |-> FALSE, pmc_id |-> api_pmcid.ret,
                                    log |-> api_pmcid.log,
                                    mapping |-> << [pmid \in DOMAIN table \cup {raw} |->
                                                      IF pmid = raw THEN api_pmcid.ret
                                                      ELSE table[pmid]] >>]
                              ELSE [raised |-> TRUE, pmc_id |-> raw,
                                    log |-> api_pmcid.log, mapping |-> mapping]
            ELSE [raised |-> FALSE, pmc_id |-> raw, log |-> <<>>, mapping |-> mapping]
    IN  IF ~step1.raised /\ ~IsPMCID(step1.pmc_id)
        THEN [step1 EXCEPT !.pmc_id = "PMC" \o step1.pmc_id]
        ELSE step1

\* extractor.py:332-355, steps 1 and 2: the identifier handed to the fetch,
\* or the ValueError of line 351; with the log of the step and the mapping
\* table after it, which no branch writes
ResolveStep(raw, conv) ==
    LET step1 ==
            IF ~IsPMCID(raw)
            THEN LET db_pmcid == get_pmcid_from_database(raw)
                 IN  IF Truthy(db_pmcid)
                     THEN [raised |-> FALSE, pmc_id |-> db_pmcid, log |-> <<>>,
                           mapping |-> mapping]
                     ELSE LET api_pmcid == convert_pmid_to_pmcid(raw, conv)
                          IN  IF Truthy(api_pmcid.ret)
                              THEN [raised |-> FALSE, pmc_id |-> api_pmcid.ret,
                                    log |-> api_pmcid.log, mapping |-> mapping]
                              ELSE [raised |-> TRUE, pmc_id |-> raw,
                                    log |-> api_pmcid.log, mapping |-> mapping]
            ELSE [raised |-> FALSE, pmc_id |-> raw, log |-> <<>>, mapping |-> mapping]
    IN  IF ~step1.raised /\ ~IsPMCID(step1.pmc_id)
        THEN [step1 EXCEPT !.pmc_id = "PMC" \o step1.pmc_id]
        ELSE step1

RECURSIVE AnnotateFigures(_, _)
\* extractor.py:367-376
AnnotateFigures(figures, bern) ==
    IF figures = <<>> THEN [figures |-> <<>>, log |-> <<>>]
    ELSE LET figure == Head(figures)
             rest == AnnotateFigures(Tail(figures), bern)
         IN  IF Len(figure.caption) > MinCaptionLen
             THEN LET entities == fetch_entities_from_bern(figure.caption, bern)
                  IN  [figures |-> <<[figure EXCEPT !.entities = entities.ret]>> \o rest.figures,
                       log |-> entities.log \o rest.log]
             ELSE [figures |-> <<[figure EXCEPT !.entities = <<>>]>> \o rest.figures,
                   log |-> rest.log]

\* what the insert of line 380 did: a row added, a row replaced, or an
\* error swallowed by insert_paper
InsertEvent(table, data, db_ok) ==
    [ev |-> IF ~db_ok THEN "insert_error"
            ELSE IF \E row \in table : row.pmcid = data.pmcid THEN "replace"
            ELSE "insert",
     id |-> data.pmcid,
     n  |-> 0]

\* extractor.py:366-376, the annotation step on the fetched document
AnnotateStep(paper_data0, bern2) ==
    IF ENABLE_ENTITY_EXTRACTION /\ paper_data0.figures # <<>>
    THEN AnnotateFigures(paper_data0.figures, bern2)
    ELSE [figures |-> paper_data0.figures, log |-> <<>>]

\* extractor.py:378-384, the insert and the return
InsertStep(resolved, fetched, annotated, db_ok) ==
    LET paper_data == [fetched.ret[1] EXCEPT !.figures = annotated.figures]
    IN  [raised  |-> FALSE,
         error   |-> "",
         ret     |-> <<paper_data>>,
         pmc_id  |-> resolved.pmc_id,
         log     |-> resolved.log \o fetched.log \o annotated.log
                         \o <<InsertEvent(publications, paper_data, db_ok)>>,
         table   |-> insert_paper(publications, paper_data, db_ok),
         mapping |-> resolved.mapping]

\* the pipeline that deletes the stored row of a paper it fails to fetch
FetchStep_purge(resolved, fetched, bern2, db_ok) ==
    IF fetched.ret = <<>>
    THEN [raised |-> TRUE, ret |-> <<>>, pmc_id |-> resolved.pmc_id,
          error |-> "Failed to fetch paper with ID: " \o resolved.pmc_id,
          log |-> resolved.log \o fetched.log,
          table |-> {row \in publications : row.pmcid # resolved.pmc_id},
          mapping |-> resolved.mapping]
    ELSE InsertStep(resolved, fetched, AnnotateStep(fetched.ret[1], bern2), db_ok)

\* extractor.py:359-384, from the answer of the fetch on
FetchStep(resolved, fetched, bern2, db_ok) ==
    IF fetched.ret = <<>>
    THEN [raised |-> TRUE, ret |-> <<>>, pmc_id |-> resolved.pmc_id,
          error |-> "Failed to fetch paper with ID: " \o resolved.pmc_id,
          log |-> resolved.log \o fetched.log,
          table |-> publications, mapping |-> resolved.mapping]
    ELSE InsertStep(resolved, fetched, AnnotateStep(fetched.ret[1], bern2), db_ok)

\* extractor.py:351-384, from the outcome of the resolution on
ResolvedCall(resolved, http, bern1, bern2, db_ok) ==
    IF resolved.raised
    THEN [raised |-> TRUE, ret |-> <<>>, pmc_id |-> "",
          error |-> "Failed to fetch paper: PMID " \o resolved.pmc_id
                        \o " has no corresponding PMCID",
          log |-> resolved.log,
          table |-> publications, mapping |-> resolved.mapping]
    ELSE FetchStep(resolved, fetch_bioc_paper(resolved.pmc_id, http, bern1), bern2, db_ok)

\* extractor.py:325-384.  The result: raised (a ValueError left the
\* function), error (its message), ret (<<paper_data>> when it returned), pmc_id (the identifier
\* handed to the fetch), log, and the two tables after the call.  bern1 is
\* the annotation service during the fetch, bern2 during the annotation step.
process_paper_id(raw, conv, http, bern1, bern2, db_ok) ==
    ResolvedCall(ResolveStep(raw, conv), http, bern1, bern2, db_ok)

(***************************************************************************)
(* The batch file handler (batch_processor.py).  The model follows the     *)
(* watch folder and the handling of one batch file found in it.            *)
(***************************************************************************)
\* str.endswith(suffix)
endswith(s, suffix) ==
    /\ Len(s) >= Len(suffix)
    /\ SubSeq(s, Len(s) - Len(suffix) + 1, Len(s)) = suffix

RECURSIVE ReadIds(_)
\* batch_processor.py:56, the stripped non-blank lines of the file
ReadIds(lines) ==
    IF lines = <<>> THEN <<>>
    ELSE IF strip(Head(lines)) # ""
         THEN <<strip(Head(lines))>> \o ReadIds(Tail(lines))
         ELSE ReadIds(Tail(lines))

\* extractor.py:78-80, batch_processor.py:125-126 and 136-137
EnsurePrefix(pmc_id) == IF ~IsPMCID(pmc_id) THEN "PMC" \o pmc_id ELSE pmc_id

\* extractor.py:68-91; probe is TRUE when the HEAD request is answered with
\* status 200, FALSE for another status or a transport error
check_pmc_id_exists(pmc_id, probe) ==
    [ret |-> probe, log |-> <<Request("head", EnsurePrefix(pmc_id))>>]

\* batch_processor.py:114, 128, 140: the identifier goes to the available list
IsAvailable(paper_id, pmcid, log) ==
    [available |-> << [id |-> paper_id, pmcid |-> pmcid] >>, unavailable |-> <<>>, log |-> log]

\* batch_processor.py:118, 155, 159: the identifier goes to the unavailable list
IsUnavailable(paper_id, log) ==
    [available |-> <<>>, unavailable |-> <<paper_id>>, log |-> log]

\* batch_processor.py:112-119, from the answer of the probe on
CheckPrimary(paper_id, exists) ==
    IF exists.ret THEN IsAvailable(paper_id, paper_id, exists.log)
    ELSE IsUnavailable(paper_id, exists.log)

\* batch_processor.py:139-155, from the answer of the probe on
CheckConverted(paper_id, api_pmcid, api_log, exists) ==
    IF exists.ret THEN IsAvailable(paper_id, api_pmcid, api_log \o exists.log)
    ELSE IsUnavailable(paper_id, api_log \o exists.log \o <<Request("esearch", paper_id)>>)

\* batch_processor.py:133-155, from the answer of the conversion on
CheckByConversion(paper_id, converted, probe) ==
    IF Truthy(converted.ret)
    THEN CheckConverted(paper_id, EnsurePrefix(converted.ret), converted.log,
                        check_pmc_id_exists(EnsurePrefix(converted.ret), probe))
    ELSE IsUnavailable(paper_id, converted.log \o <<Request("esearch", paper_id)>>)

\* batch_processor.py:122-155, from the answer of the local lookup on
CheckByMapping(paper_id, db_pmcid, env) ==
    IF Truthy(db_pmcid) THEN IsAvailable(paper_id, EnsurePrefix(db_pmcid), <<>>)
    ELSE CheckByConversion(paper_id, convert_pmid_to_pmcid(paper_id, env.conv), env.probe)

\* batch_processor.py:109-159, one identifier.  env holds the answer of the
\* probe and the behaviour of the conversion service for this identifier
CheckPaper(paper_id, env) ==
    IF IsPMCID(paper_id)
    THEN CheckPrimary(paper_id, check_pmc_id_exists(paper_id, env.probe))
    ELSE CheckByMapping(paper_id, get_pmcid_from_database(paper_id), env)

\* the lists of one identifier put before the lists of the following ones
ThenChecked(first, rest) ==
    [available   |-> first.available \o rest.available,
     unavailable |-> first.unavailable \o rest.unavailable,
     log         |-> first.log \o rest.log]

RECURSIVE check_available_papers(_, _)
\* batch_processor.py:101-162
check_available_papers(paper_ids, envs) ==
    IF paper_ids = <<>> THEN [available |-> <<>>, unavailable |-> <<>>, log |-> <<>>]
    ELSE ThenChecked(CheckPaper(Head(paper_ids), Head(envs)),
                     check_available_papers(Tail(paper_ids), Tail(envs)))

\* os.rename keeping both names
rename_copy(dir, old, new) == dir \cup {new}

\* os.rename (batch_processor.py:95, 99) on the names of the watch folder
rename(dir, old, new) == (dir \ {old}) \cup {new}

\* config.py:37, the batch size when the environment does not set it
DefaultBatchSize == 10

RECURSIVE Chunks(_, _, _)
\* batch_processor.py:69-70, the slices available_papers[i:i + BATCH_SIZE]
\* for i in range(0, len(available_papers), BATCH_SIZE) from i on; the range
\* of a negative step is empty
Chunks(available, i, size) ==
    IF size <= 0 \/ i >= Len(available) THEN <<>>
    ELSE <<SubSeq(available, i + 1,
                  IF i + size < Len(available) THEN i + size ELSE Len(available))>>
             \o Chunks(available, i + size, size)

RECURSIVE Flatten(_)
\* the entries of the chunks in the order the two loops visit them
Flatten(chunks) ==
    IF chunks = <<>> THEN <<>> ELSE Head(chunks) \o Flatten(Tail(chunks))

\* the handler before any file was created
BatchIdle ==
    [phase |-> "idle", path |-> "", dir |-> {}, lines |-> <<>>,
     paper_ids |-> <<>>, available |-> <<>>, unavailable |-> <<>>, log |-> <<>>,
     position |-> 0, success_count |-> 0, fail_count |-> 0, skipped_count |-> 0,
     sidecar |-> <<>>, invoked |-> <<>>, error |-> "",
     pending |-> <<>>, serial |-> 0, history |-> <<>>,
     BATCH_SIZE |-> DefaultBatchSize, chunks |-> <<>>]

\* the event the observer queues for a name that appears in the watch folder
\* (batch_processor.py:168); a name produced by a rename is queued too, for
\* the observers that report a move as a creation
Appeared(name) == [src_path |-> name, lines |-> <<>>]

\* batch_processor.py:97-99, the whole-file failure path; e names the
\* statement whose exception is logged at line 98
FailFile(b, e) ==
    [b EXCEPT !.phase = "failed", !.error = e,
              !.dir = rename(@, b.path, b.path \o ".failed"),
              !.pending = Append(@, Appeared(b.path \o ".failed"))]

\* batch_processor.py:90-92, the summary written to the sidecar file
Summary(b) ==
    [total |-> Len(b.paper_ids), available |-> Len(b.available),
     success |-> b.success_count, failed |-> b.fail_count, skipped |-> b.skipped_count]

\* batch_processor.py:90-95, the sidecar and the rename after the loop
CompleteFile(b) ==
    [b EXCEPT !.phase = "completed",
              !.sidecar = <<Summary(b)>>,
              !.dir = rename(@ \cup {b.path \o ".processed"}, b.path, b.path \o ".completed"),
              !.pending = @ \o <<Appeared(b.path \o ".processed"),
                                 Appeared(b.path \o ".completed")>>]

(***************************************************************************)
(* The HTTP layer (api.py).  A request names the handler its path is       *)
(* routed to, the value of the X-API-Key header and the handler's          *)
(* argument; the log of a request holds its storage reads and its          *)
(* pipeline calls.                                                         *)
(***************************************************************************)
\* config.py:21, the default of the configured secret (the later of the two
\* assignments of API_KEY)
API_KEY == "default-api-key"

\* a dependency that lets every key pass
verify_api_key_open(key) == TRUE

\* api.py:29-36; FALSE when the dependency raises the 403
verify_api_key(key) == key = API_KEY

\* no request was received yet; reported holds the identifiers for which a
\* response of POST /extract has reported success so far
ApiIdle ==
    [phase |-> "idle", method |-> "", path |-> <<>>, route |-> "", key |-> "", arg |-> "",
     paper_ids |-> <<>>,
     position |-> 0, status |-> 0, results |-> <<>>, body |-> <<>>, log |-> <<>>,
     reported |-> {}]

\* storage.py:42-86, the row of a paper as a dictionary, or None
get_paper_data(paper_id) ==
    LET id == IF ~startswith(paper_id, "PMC") THEN "PMC" \o paper_id ELSE paper_id
        rows == {row \in publications : row.pmcid = id}
    IN  [ret |-> IF rows = {} THEN <<>> ELSE <<CHOOSE row \in rows : TRUE>>,
         log |-> <<Request("select", id)>>]

\* api.py:115-133 and 163-176, the lookup of get_paper and get_paper_csv:
\* the direct lookup, then the lookup through the mapping table
FindPaper(paper_id) ==
    LET direct == get_paper_data(paper_id)
        pmcid == get_pmcid_from_database(paper_id)
    IN  IF direct.ret = <<>> /\ ~IsPMCID(paper_id) /\ Truthy(pmcid)
        THEN [ret |-> get_paper_data(pmcid).ret, log |-> direct.log \o get_paper_data(pmcid).log]
        ELSE direct

\* the body of the reading handlers: get_paper (api.py:110-134),
\* db_statistics (137-155), get_paper_csv (158-227), get_all_papers_csv
\* (230-264); the status, the rows the body is made of and the reads
ReadHandler(route, arg) ==
    IF route = "db_statistics"
    THEN [status |-> 200, body |-> <<Cardinality(publications)>>, log |-> <<Request("select", "")>>]
    ELSE IF route = "get_all_papers_csv"
    THEN [status |-> 200, body |-> <<publications>>, log |-> <<Request("select", "")>>]
    ELSE LET found == FindPaper(arg)
         IN  [status |-> IF found.ret = <<>> THEN 404 ELSE 200, body |-> found.ret,
              log |-> found.log]

\* a route of the application: its method, the segments of its path (a
\* segment in braces is a path parameter) and its handler
Route(method, path, endpoint) == [method |-> method, path |-> path, endpoint |-> endpoint]

\* the routes with /papers/csv declared before /papers/{paper_id}
RoutesExportFirst ==
    << Route("POST", <<"extract">>, "extract_papers"),
       Route("GET", <<"papers", "csv">>, "get_all_papers_csv"),
       Route("GET", <<"papers", "{paper_id}">>, "get_paper"),
       Route("GET", <<"db-stats">>, "db_statistics"),
       Route("GET", <<"papers", "{paper_id}", "csv">>, "get_paper_csv") >>

\* api.py:61, 110, 137, 158, 230: the routes in the order of their decorators
Routes ==
    << Route("POST", <<"extract">>, "extract_papers"),
       Route("GET", <<"papers", "{paper_id}">>, "get_paper"),
       Route("GET", <<"db-stats">>, "db_statistics"),
       Route("GET", <<"papers", "{paper_id}", "csv">>, "get_paper_csv"),
       Route("GET", <<"papers", "csv">>, "get_all_papers_csv") >>

\* a path parameter matches any one segment
IsParam(segment) == startswith(segment, "{")

\* the path matches the pattern of the route, segment by segment
PathMatches(pattern, path) ==
    /\ Len(pattern) = Len(path)
    /\ \A k \in 1..Len(pattern) : IsParam(pattern[k]) \/ pattern[k] = path[k]

\* the value of the path parameter of the route, "" when it has none
PathParam(pattern, path) ==
    LET at == {k \in 1..Len(pattern) : IsParam(pattern[k])}
    IN  IF at = {} THEN "" ELSE path[CHOOSE k \in at : TRUE]

RECURSIVE Resolve(_, _, _)
\* the routing of a request (the decorators of api.py in their order): the
\* handler of the first route that matches, and its path parameter;
\* endpoint "" when no route matches
Resolve(routes, method, path) ==
    IF routes = <<>> THEN [endpoint |-> "", arg |-> ""]
    ELSE IF Head(routes).method = method /\ PathMatches(Head(routes).path, path)
    THEN [endpoint |-> Head(routes).endpoint, arg |-> PathParam(Head(routes).path, path)]
    ELSE Resolve(Tail(routes), method, path)

\* api.py:68-98, the paper of an identifier is already stored
AlreadyStored(pid) ==
    LET pmcid == IF IsPMCID(pid) THEN pid ELSE get_pmcid_from_database(pid)
    IN  IF Truthy(pmcid) /\ (\E row \in publications : row.pmcid = upper(pmcid))
        THEN <<pmcid>> ELSE <<>>

\* api.py:78, 97, 103, 106, the entry of one identifier in the response
ExtractResult(id, status, error, note) ==
    [id |-> id, status |-> status, error |-> error, note |-> note]

\* the concurrent callers of the pipeline (api.py:102 under concurrent requests)
Callers == {"a", "b"}

\* no caller has called yet.  pc: the place of each caller in its call;
\* data: the document it is about to insert; writes: the documents whose
\* INSERT OR REPLACE was executed, in the order of execution
NoCalls ==
    [pc |-> [c \in Callers |-> "idle"], data |-> [c \in Callers |-> <<>>], writes |-> <<>>]

(***************************************************************************)
(* Inputs.                                                                 *)
(***************************************************************************)
\* raw identifiers handed to the pipeline
RawIds == {"PMC1", "pmc1", "7"}

Caption19 == "Fig 1. IL-6 levels."
Caption20 == "Fig 2. TNF in liver."
Caption29 == "Fig 3. IL-6 and TNF in serum."
Captions == {"", "Fig 4", Caption19, Caption20, Caption29}

XmlFigures ==
    Collection(<<>>, << Document(<<>>,
        << Passage(<<Infon("type", "title")>>, "A study"),
           Passage(<<Infon("type", "abstract")>>, "We study."),
           Passage(<<Infon("section_type", "FIG"), Infon("file", "f1.jpg")>>, Caption20),
           Passage(<<Infon("type", "fig")>>, Caption29) >>) >>)
XmlEmpty == Collection(<<>>, <<>>)
XmlSamples == {XmlFigures, XmlEmpty}

\* passages of the responses handed to a direct fetch
PassageTitleFront ==
    Passage(<<Infon("section_type", "TITLE"), Infon("type", "front")>>, "Title one")
PassageTitle == Passage(<<Infon("type", "title")>>, "Title two")
PassageTitleNoText == Passage(<<Infon("type", "title")>>, None)
PassageAbstractBoth ==
    Passage(<<Infon("section_type", "ABSTRACT"), Infon("type", "abstract")>>, "Background.")
PassageAbstractType == Passage(<<Infon("type", "abstract")>>, "Methods.")
PassageAbstractSection == Passage(<<Infon("section_type", "ABSTRACT")>>, "Results.")
PassageFigType ==
    Passage(<<Infon("type", "fig"), Infon("url", "a.png"), Infon("file", "a.jpg")>>, Caption29)
PassageFigSection == Passage(<<Infon("section_type", "FIG")>>, Caption20)
PassageFigBoth ==
    Passage(<<Infon("section_type", "FIG"), Infon("type", "fig"), Infon("fig_url", "c.gif")>>,
            Caption19)
PassageText == Passage(<<Infon("section_type", "INTRO"), Infon("type", "paragraph")>>, "Intro.")

\* documents of the responses handed to a direct fetch
DocumentSamples ==
    { Document(<<>>, <<PassageTitleFront, PassageAbstractType, PassageAbstractSection,
                       PassageFigType, PassageFigSection>>),
      Document(<<Infon("article-title", "Doc title")>>,
               <<PassageTitle, PassageAbstractBoth, PassageFigBoth>>),
      Document(<<Infon("article-title", "Doc title")>>,
               <<PassageTitleNoText, PassageFigSection>>),
      Document(<<>>, <<PassageText, PassageAbstractType>>),
      Document(<<Infon("article-title", None)>>, <<PassageAbstractType>>),
      Document(<<>>, <<PassageTitleFront, PassageText, PassageFigSection>>),
      Document(<<>>, <<PassageTitle, PassageTitleFront, PassageAbstractBoth>>),
      Document(<<>>, <<PassageText>>) }

\* response bodies handed to a direct fetch: up to MaxDocuments documents,
\* with or without a collection-level title
XmlBodies ==
    { Collection(infons, documents) :
        infons \in { <<>>, <<Infon("article-title", "Coll title")>> },
        documents \in UNION { [1..n -> DocumentSamples] : n \in 0..MaxDocuments } }

\* the answers of the document service to a direct fetch
FetchResponses ==
    [kind : {"ok"}, body : XmlBodies] \cup [kind : {"not_found"}, body : {XmlEmpty}]

\* the behaviours of the annotation service during a direct fetch: it
\* answers at once, or not at all
FetchBernOutcomes ==
    {bern \in BernOutcomes : bern.annotations = CHOOSE a \in AnnotationSamples : Len(a) = 1}

\* names of the files created in the watch folder
FilePaths == {"ids.txt", "notes.md"}

\* contents of the batch files
BatchFiles ==
    { <<>>, <<"PMC1", "7">>, <<" 7 ", "", "8">>, <<"PMC1", "PMC1">> }

\* the answer of the probe and the behaviour of the conversion service for
\* one identifier of a batch file
CheckEnvs == [probe : BOOLEAN, conv : ConvOutcomes]

\* a second content of the document PMC1
XmlRevised ==
    Collection(<<>>, << Document(<<>>,
        << Passage(<<Infon("type", "title")>>, "A study, revised"),
           Passage(<<Infon("type", "abstract")>>, "We study again."),
           Passage(<<Infon("type", "fig")>>, "Fig 4") >>) >>)

\* the answers of the document service to concurrent calls
ConcurrentResponses ==
    [kind : {"ok"}, body : {XmlFigures, XmlRevised}] \cup [kind : {"not_found"}, body : {XmlEmpty}]

\* the values of the X-API-Key header of a request
ApiKeys == {API_KEY, "your-default-api-key", "Default-Api-Key", "default-api-key "}

\* the paths of the requests, as their segments
ApiPaths ==
    { <<"extract">>, <<"db-stats">>, <<"papers">>, <<"papers", "PMC1">>, <<"papers", "7">>,
      <<"papers", "csv">>, <<"papers", "PMC1", "csv">>, <<"papers", "7", "csv">> }

\* the identifier lists of the extract requests
ExtractRequests == { <<>>, <<"7", "PMC1">>, <<"PMC1", "pmc1", "7">>, <<"PMC7">> }

\* the values of BATCH_SIZE in the environment
BatchSizes == {-1, 0, 1, 2, 3}

\* the contents of the batch files handled under a configured batch size
ChunkFiles == { <<>>, <<"PMC1", "PMC2", "PMC3">> }

\* the files created while the watcher runs
WatchFiles ==
    { [src_path |-> "ids.txt", lines |-> <<"PMC1", "PMC1">>],
      [src_path |-> "more.txt", lines |-> <<"PMC1">>],
      [src_path |-> "notes.md", lines |-> <<>>] }

\* mapping files handed to the import
FileOaList ==
    << "2024-01-01 00:00:00",
       "oa_package/aa/bb/PMC1.tar.gz	J Med. 2020	PMC1	PMID:7	CC BY",
       "# comment",
       "oa_package/cc/dd/a.tar.gz	J Med. 2021	no id here" >>
FileTwoColumns == << "PMID	PMCID", "7	pmc1 ", "garbage" >>
FileLowerCase == << "header", "x.pdf	A title	pmc1	PMID:7	CC0", "data/PMC1.pdf" >>
MappingFiles == { <<>>, <<FileOaList>>, <<FileTwoColumns>>, <<FileLowerCase>> }

\* the line of a PMC file list for PMC123
SampleLine == "file.pdf	Some Title	PMC123	PMID:999	CC-BY"

\* mapping files handed to the import tool: the sample line as the only
\* line, as the first line, after a timestamp and after a data line of the
\* file list, and a file of unparseable lines around one mapping
FileSampleOnly == << SampleLine >>
FileSampleFirst == << SampleLine, "1000	PMC5" >>
FileSampleSecond == << "2024-01-01 00:00:00", SampleLine >>
FileSampleLast ==
    << "oa_package/aa/bb/PMC1.tar.gz	J Med. 2020	PMC1	PMID:7	CC BY", "", SampleLine >>
FileGarbage == << "garbage", "more garbage", "1000	PMC5", "# comment", "no mapping" >>
ImportFiles ==
    MappingFiles \cup { <<FileSampleOnly>>, <<FileSampleFirst>>, <<FileSampleSecond>>,
                        <<FileSampleLast>>, <<FileGarbage>> }

\* identifiers handed to the lookup tool
LookupIds == {"999", "7", "1000", "123", "PMC123", "8"}

\* the mapping files imported before a batch file is handled
BatchMappingFiles == { <<FileOaList>> }

HttpResponses ==
    [kind : {"ok"}, body : XmlSamples]
        \cup [kind : {"not_found"}, body : {XmlEmpty}]

\* the answer of the document service in a call that never consults it
HttpQuiet == [kind |-> "not_found", body |-> XmlEmpty]

\* the behaviours of a service that matter to a call: all of them when the
\* call sends it a request, one otherwise
Consulted(log, kind, behaviours, quiet) ==
    IF SelectEv(log, kind) # <<>> THEN behaviours ELSE {quiet}

(***************************************************************************)
(* The state machine.                                                      *)
(***************************************************************************)
\* the behaviours of the services during an operation
Env(conv, http, bern1, bern2, db_ok) ==
    [conv |-> conv, http |-> http, bern1 |-> bern1, bern2 |-> bern2, db_ok |-> db_ok]

EnvQuiet == Env(ConvQuiet, HttpQuiet, BernQuiet, BernQuiet, TRUE)

Init ==
    /\ ENABLE_ENTITY_EXTRACTION \in BOOLEAN
    /\ mapping = <<>>
    /\ publications = {}
    /\ last = [op |-> "start", arg |-> "", env |-> EnvQuiet, raised |-> FALSE,
               error |-> "", ret |-> <<>>, pmc_id |-> "", log |-> <<>>]
    /\ calls = 0
    /\ batch = BatchIdle
    /\ inflight = NoCalls
    /\ api = ApiIdle

\* main_cli.py:92-95 and any other direct call of the annotator
Annotate(caption, bern) ==
    LET r == fetch_entities_from_bern(caption, bern)
    IN  /\ calls < MaxCalls
        /\ calls' = calls + 1
        /\ last' = [op |-> "annotate", arg |-> caption,
                    env |-> [EnvQuiet EXCEPT !.bern1 = bern], raised |-> FALSE,
                    error |-> "",
                    ret |-> <<r.ret>>, pmc_id |-> "", log |-> r.log]
        /\ UNCHANGED <<ENABLE_ENTITY_EXTRACTION, mapping, publications, batch, inflight, api>>

\* main_cli.py:110-112 and any other direct call of the conversion
Convert(pmid, conv) ==
    LET r == convert_pmid_to_pmcid(pmid, conv)
    IN  /\ calls < MaxCalls
        /\ calls' = calls + 1
        /\ last' = [op |-> "convert", arg |-> pmid,
                    env |-> [EnvQuiet EXCEPT !.conv = conv], raised |-> FALSE,
                    error |-> "",
                    ret |-> <<r.ret>>, pmc_id |-> "", log |-> r.log]
        /\ UNCHANGED <<ENABLE_ENTITY_EXTRACTION, mapping, publications, batch, inflight, api>>

\* help.py:508-510, the import of a mapping file
Import(file) ==
    LET r == build_pmid_to_pmcid_mapping(file)
    IN  /\ calls < MaxCalls
        /\ calls' = calls + 1
        /\ last' = [op |-> "import", arg |-> "", env |-> EnvQuiet, raised |-> FALSE,
                    error |-> "",
                    ret |-> <<r.ret, r.errors>>, pmc_id |-> "", log |-> <<>>,
                    file |-> file]
        /\ mapping' = r.mapping
        /\ UNCHANGED <<ENABLE_ENTITY_EXTRACTION, publications, batch, inflight, api>>

\* help.py:502-507, the lookup of an identifier in the mapping table
Lookup(pmid) ==
    /\ calls < MaxCalls
    /\ calls' = calls + 1
    /\ last' = [op |-> "lookup", arg |-> pmid, env |-> EnvQuiet, raised |-> FALSE,
                error |-> "",
                ret |-> <<lookup_pmcid(pmid)>>, pmc_id |-> "", log |-> <<>>]
    /\ UNCHANGED <<ENABLE_ENTITY_EXTRACTION, mapping, publications, batch, inflight, api>>

\* main_cli.py:123-125, a direct call of the fetch.  The fetch reads and
\* writes none of the tables, so one call from the initial state shows all
\* of its behaviours
Fetch(pmc_id, http, bern) ==
    /\ calls = 0
    /\ \E r \in {fetch_bioc_paper(pmc_id, http, bern)} :
           last' = [op |-> "fetch", arg |-> pmc_id,
                    env |-> [EnvQuiet EXCEPT !.http = http, !.bern1 = bern],
                    raised |-> FALSE, error |-> "",
                    ret |-> r.ret, pmc_id |-> pmc_id, log |-> r.log]
    /\ calls' = calls + 1
    /\ UNCHANGED <<ENABLE_ENTITY_EXTRACTION, mapping, publications, batch, inflight, api>>

\* batch_processor.py:13-20, a file is created in the watch folder
CreateFile(file_path, lines) ==
    /\ batch.phase = "idle"
    /\ file_path \notin batch.dir
    /\ batch' = IF endswith(file_path, ".txt")
                THEN [batch EXCEPT !.phase = "discovered", !.path = file_path,
                                   !.dir = @ \cup {file_path}, !.lines = lines,
                                   !.serial = @ + 1]
                ELSE [batch EXCEPT !.dir = @ \cup {file_path}]
    /\ UNCHANGED <<ENABLE_ENTITY_EXTRACTION, mapping, publications, last, calls, inflight, api>>

\* the request as it reaches the handler of its route: the dependency on
\* verify_api_key is resolved before the handler is called (api.py:62, 111,
\* 138, 159, 231); a reading handler runs to its response, extract_papers
\* starts its loop
Routed(request, route, key, arg, paper_ids) ==
    IF route = ""
    THEN [request EXCEPT !.phase = "responded", !.key = key, !.status = 404]
    ELSE IF ~verify_api_key(key)
    THEN [request EXCEPT !.phase = "responded", !.route = route, !.key = key,
                         !.arg = arg, !.paper_ids = paper_ids, !.status = 403]
    ELSE IF route = "extract_papers"
    THEN [request EXCEPT !.phase = "extracting", !.route = route, !.key = key,
                         !.paper_ids = paper_ids]
    ELSE [request EXCEPT !.phase = "responded", !.route = route, !.key = key,
                         !.arg = arg,
                         !.status = ReadHandler(route, arg).status,
                         !.body = ReadHandler(route, arg).body,
                         !.log = ReadHandler(route, arg).log]

\* a request arrives and is served by the first route, in the order of
\* declaration, that its method and path match
ApiRequest(method, path, key, paper_ids) ==
    /\ api.phase \in {"idle", "responded"}
    /\ calls < MaxCalls
    /\ calls' = calls + 1
    /\ api' = Routed([ApiIdle EXCEPT !.method = method, !.path = path,
                                     !.reported = api.reported],
                     Resolve(Routes, method, path).endpoint, key,
                     Resolve(Routes, method, path).arg, paper_ids)
    /\ UNCHANGED <<ENABLE_ENTITY_EXTRACTION, mapping, publications, last, batch, inflight>>

\* the loop in which the failure of an identifier leaves the handler
ExtractEntry_abort(conv, http, bern, db_ok) ==
    /\ api.phase = "extracting"
    /\ api.position < Len(api.paper_ids)
    /\ \E pid \in {api.paper_ids[api.position + 1]} :
       \E r \in {process_paper_id(pid, conv, http, bern, bern, db_ok)} :
           IF AlreadyStored(pid) # <<>>
           THEN /\ api' = [api EXCEPT !.position = @ + 1,
                                      !.results = Append(@, ExtractResult(pid, "success", None,
                                                             "Retrieved from database")),
                                      !.log = Append(@, Request("select", pid))]
                /\ UNCHANGED <<mapping, publications, last>>
           ELSE /\ api' = IF r.raised
                          THEN [api EXCEPT !.phase = "responded", !.status = 500,
                                           !.log = Append(@, Request("process", pid))]
                          ELSE [api EXCEPT !.position = @ + 1,
                                           !.results = Append(@, ExtractResult(pid, "success",
                                                                               None, None)),
                                           !.log = Append(@, Request("process", pid))]
                /\ last' = [op |-> "process", arg |-> pid,
                            env |-> Env(conv, http, bern, bern, db_ok), raised |-> r.raised,
                            error |-> r.error,
                            ret |-> r.ret, pmc_id |-> r.pmc_id, log |-> r.log]
                /\ publications' = r.table
                /\ mapping' = r.mapping
    /\ UNCHANGED <<ENABLE_ENTITY_EXTRACTION, calls, batch, inflight>>

\* api.py:66-106, the body of the loop of extract_papers for the next
\* identifier: skipped when its paper is stored, else passed to the pipeline
ExtractEntry(conv, http, bern, db_ok) ==
    /\ api.phase = "extracting"
    /\ api.position < Len(api.paper_ids)
    /\ \E pid \in {api.paper_ids[api.position + 1]} :
       \E r \in {process_paper_id(pid, conv, http, bern, bern, db_ok)} :
           IF AlreadyStored(pid) # <<>>
           THEN /\ api' = [api EXCEPT !.position = @ + 1,
                                      !.results = Append(@, ExtractResult(pid, "success", None,
                                                             "Retrieved from database")),
                                      !.log = Append(@, Request("select", pid))]
                /\ UNCHANGED <<mapping, publications, last>>
           ELSE /\ api' = [api EXCEPT !.position = @ + 1,
                                      !.results = Append(@,
                                          IF r.raised
                                          THEN ExtractResult(pid, "failed", r.error, None)
                                          ELSE ExtractResult(pid, "success", None, None)),
                                      !.log = Append(@, Request("process", pid))]
                /\ last' = [op |-> "process", arg |-> pid,
                            env |-> Env(conv, http, bern, bern, db_ok), raised |-> r.raised,
                            error |-> r.error,
                            ret |-> r.ret, pmc_id |-> r.pmc_id, log |-> r.log]
                /\ publications' = r.table
                /\ mapping' = r.mapping
    /\ UNCHANGED <<ENABLE_ENTITY_EXTRACTION, calls, batch, inflight>>

\* api.py:107, the list of results is returned
ExtractRespond ==
    /\ api.phase = "extracting"
    /\ api.position = Len(api.paper_ids)
    /\ api' = [api EXCEPT !.phase = "responded", !.status = 200,
                          !.reported = @ \cup {api.results[i].id : i \in
                                                  {k \in 1..Len(api.results) :
                                                       api.results[k].status = "success"}}]
    /\ UNCHANGED <<ENABLE_ENTITY_EXTRACTION, mapping, publications, last, calls, batch, inflight>>

\* extractor.py:325-376 in a call of one of the concurrent callers: the
\* resolution, the fetch and the annotation, up to the insert
Prepare(c, raw, http, bern) ==
    /\ inflight.pc[c] = "idle"
    /\ \E r \in {process_paper_id(raw, ConvQuiet, http, bern, bern, TRUE)} :
           /\ inflight' = [inflight EXCEPT !.pc[c] = IF r.raised THEN "raised" ELSE "insert",
                                           !.data[c] = r.ret]
           /\ last' = [op |-> "process", arg |-> raw,
                       env |-> Env(ConvQuiet, http, bern, bern, TRUE), raised |-> r.raised,
                       error |-> r.error,
                       ret |-> <<>>, pmc_id |-> r.pmc_id, log |-> r.log]
    /\ UNCHANGED <<ENABLE_ENTITY_EXTRACTION, mapping, publications, calls, batch, api>>

\* extractor.py:378-384 in a call of one of the concurrent callers: the one
\* INSERT OR REPLACE statement (storage.py:33-37) on the table as it stands
\* when the statement is executed, and the return
Write(c, db_ok) ==
    /\ inflight.pc[c] = "insert"
    /\ publications' = insert_paper(publications, inflight.data[c][1], db_ok)
    /\ inflight' = [inflight EXCEPT !.pc[c] = "returned",
                                    !.writes = IF db_ok THEN Append(@, inflight.data[c][1])
                                               ELSE @]
    /\ last' = [last EXCEPT !.op = "process", !.arg = inflight.data[c][1].pmcid,
                            !.raised = FALSE, !.error = "", !.ret = inflight.data[c],
                            !.pmc_id = inflight.data[c][1].pmcid, !.log = <<>>]
    /\ UNCHANGED <<ENABLE_ENTITY_EXTRACTION, mapping, calls, batch, api>>

\* batch_processor.py:165-170: a file is created in the watch folder while
\* the observer runs; its event is queued for the observer's dispatch thread
FileCreated(file_path, lines) ==
    /\ batch.serial + Len(batch.pending) < MaxEvents
    /\ file_path \notin batch.dir
    /\ batch' = [batch EXCEPT !.dir = @ \cup {file_path},
                              !.pending = Append(@, [src_path |-> file_path, lines |-> lines])]
    /\ UNCHANGED <<ENABLE_ENTITY_EXTRACTION, mapping, publications, last, calls, inflight, api>>

\* the handler that takes every created file for a batch file
on_created_any(b, event) ==
    [BatchIdle EXCEPT !.phase = "discovered", !.path = event.src_path,
                      !.lines = event.lines, !.dir = b.dir,
                      !.pending = Tail(b.pending), !.serial = b.serial + 1,
                      !.history = b.history, !.BATCH_SIZE = b.BATCH_SIZE]

\* batch_processor.py:13-20 on one event: the handling of a .txt file starts
\* (its call of process_file at line 20), another file is ignored
on_created(b, event) ==
    IF endswith(event.src_path, ".txt")
    THEN [BatchIdle EXCEPT !.phase = "discovered", !.path = event.src_path,
                           !.lines = event.lines, !.dir = b.dir,
                           !.pending = Tail(b.pending), !.serial = b.serial + 1,
                           !.history = b.history, !.BATCH_SIZE = b.BATCH_SIZE]
    ELSE [b EXCEPT !.pending = Tail(@), !.serial = @ + 1]

\* a dispatch that hands every event to a handler thread of its own
Dispatch_threaded ==
    /\ batch.pending # <<>>
    /\ batch' = on_created(batch, Head(batch.pending))
    /\ UNCHANGED <<ENABLE_ENTITY_EXTRACTION, mapping, publications, last, calls, inflight, api>>

\* batch_processor.py:165-170 and 13-20: the one dispatch thread of the one
\* observer calls on_created for the next queued event once its previous
\* call has returned; on_created runs process_file in that thread (line 20)
Dispatch ==
    /\ batch.phase \in {"idle", "completed", "failed"}
    /\ batch.pending # <<>>
    /\ batch' = on_created(batch, Head(batch.pending))
    /\ UNCHANGED <<ENABLE_ENTITY_EXTRACTION, mapping, publications, last, calls, inflight, api>>

\* config.py:37, the batch size read from the environment when the watcher
\* process starts
Configure(size) ==
    /\ batch = BatchIdle
    /\ calls = 0
    /\ batch' = [batch EXCEPT !.BATCH_SIZE = size]
    /\ UNCHANGED <<ENABLE_ENTITY_EXTRACTION, mapping, publications, last, calls, inflight, api>>

\* batch_processor.py:54-63 and 97-99: the file is read and its identifiers
\* are checked; read_ok is FALSE when opening or reading the file raises
ReadAndCheck(read_ok, envs) ==
    /\ batch.phase = "discovered"
    /\ IF ~read_ok THEN batch' = FailFile(batch, "read")
       ELSE \E paper_ids \in {ReadIds(batch.lines)} :
            \E checked \in {check_available_papers(paper_ids, envs)} :
                batch' = [batch EXCEPT !.phase = "availability-checked",
                                       !.paper_ids = paper_ids,
                                       !.available = checked.available,
                                       !.unavailable = checked.unavailable,
                                       !.log = checked.log]
    /\ UNCHANGED <<ENABLE_ENTITY_EXTRACTION, mapping, publications, last, calls, inflight, api>>

\* the counters that start without the identifiers found unavailable
StartChunks_noskip ==
    /\ batch.phase = "availability-checked"
    /\ batch' = [batch EXCEPT !.phase = "chunk-processing",
                              !.success_count = 0, !.fail_count = 0,
                              !.skipped_count = 0,
                              !.chunks = Chunks(batch.available, 0, batch.BATCH_SIZE)]
    /\ UNCHANGED <<ENABLE_ENTITY_EXTRACTION, mapping, publications, last, calls, inflight, api>>

\* batch_processor.py:65-70, the counters and the head of the chunk loop;
\* range() raises ValueError for a step of 0
StartChunks ==
    /\ batch.phase = "availability-checked"
    /\ batch' = IF batch.BATCH_SIZE = 0
                THEN FailFile([batch EXCEPT !.success_count = 0, !.fail_count = 0,
                                            !.skipped_count = Len(batch.unavailable)],
                              "range")
                ELSE [batch EXCEPT !.phase = "chunk-processing",
                                   !.success_count = 0, !.fail_count = 0,
                                   !.skipped_count = Len(batch.unavailable),
                                   !.chunks = Chunks(batch.available, 0, batch.BATCH_SIZE)]
    /\ UNCHANGED <<ENABLE_ENTITY_EXTRACTION, mapping, publications, last, calls, inflight, api>>

\* the loop that lets the failure of an entry escape to the whole-file handler
ProcessEntry_abort(http, bern) ==
    /\ batch.phase = "chunk-processing"
    /\ batch.position < Len(Flatten(batch.chunks))
    /\ \E pmcid \in {Flatten(batch.chunks)[batch.position + 1].pmcid} :
       \E r \in {process_paper_id(pmcid, ConvQuiet, http, bern, bern, TRUE)} :
           /\ last' = [op |-> "process", arg |-> pmcid,
                       env |-> Env(ConvQuiet, http, bern, bern, TRUE), raised |-> r.raised,
                       error |-> r.error,
                       ret |-> r.ret, pmc_id |-> r.pmc_id, log |-> r.log]
           /\ publications' = r.table
           /\ mapping' = r.mapping
           /\ batch' = IF r.raised
                        THEN FailFile([batch EXCEPT !.position = @ + 1,
                                                    !.invoked = Append(@, pmcid),
                                                    !.history = Append(@, batch.serial)],
                                      "entry")
                        ELSE [batch EXCEPT !.position = @ + 1,
                                           !.invoked = Append(@, pmcid),
                                           !.history = Append(@, batch.serial),
                                           !.success_count = @ + 1]
    /\ UNCHANGED <<ENABLE_ENTITY_EXTRACTION, calls, inflight, api>>

\* batch_processor.py:73-88, the next available entry is passed to the pipeline
ProcessEntry(http, bern) ==
    /\ batch.phase = "chunk-processing"
    /\ batch.position < Len(Flatten(batch.chunks))
    /\ \E pmcid \in {Flatten(batch.chunks)[batch.position + 1].pmcid} :
       \E r \in {process_paper_id(pmcid, ConvQuiet, http, bern, bern, TRUE)} :
           /\ last' = [op |-> "process", arg |-> pmcid,
                       env |-> Env(ConvQuiet, http, bern, bern, TRUE), raised |-> r.raised,
                       error |-> r.error,
                       ret |-> r.ret, pmc_id |-> r.pmc_id, log |-> r.log]
           /\ publications' = r.table
           /\ mapping' = r.mapping
           /\ batch' = [batch EXCEPT !.position = @ + 1,
                                     !.invoked = Append(@, pmcid),
                                     !.history = Append(@, batch.serial),
                                     !.success_count = IF r.raised THEN @ ELSE @ + 1,
                                     !.fail_count = IF r.raised THEN @ + 1 ELSE @]
    /\ UNCHANGED <<ENABLE_ENTITY_EXTRACTION, calls, inflight, api>>

\* the handling that marks the file failed as soon as one entry failed
Finish_strict(write_ok) ==
    /\ batch.phase = "chunk-processing"
    /\ batch.position = Len(Flatten(batch.chunks))
    /\ batch' = IF write_ok /\ batch.fail_count = 0 THEN CompleteFile(batch)
                ELSE FailFile(batch, IF write_ok THEN "entries" ELSE "write")
    /\ UNCHANGED <<ENABLE_ENTITY_EXTRACTION, mapping, publications, last, calls, inflight, api>>

\* batch_processor.py:90-99, after the loop; write_ok is FALSE when writing
\* the sidecar raises
Finish(write_ok) ==
    /\ batch.phase = "chunk-processing"
    /\ batch.position = Len(Flatten(batch.chunks))
    /\ batch' = IF write_ok THEN CompleteFile(batch) ELSE FailFile(batch, "write")
    /\ UNCHANGED <<ENABLE_ENTITY_EXTRACTION, mapping, publications, last, calls, inflight, api>>

\* a call of process_paper_id (main_cli.py:25, api.py:102, batch_processor.py:78)
Process(raw, conv, http, bern1, bern2, db_ok) ==
    \E r \in {process_paper_id(raw, conv, http, bern1, bern2, db_ok)} :
        /\ calls < MaxCalls
        /\ calls' = calls + 1
        /\ last' = [op |-> "process", arg |-> raw,
                    env |-> Env(conv, http, bern1, bern2, db_ok), raised |-> r.raised,
                    error |-> r.error,
                    ret |-> r.ret, pmc_id |-> r.pmc_id, log |-> r.log]
        /\ publications' = r.table
        /\ mapping' = r.mapping
        /\ UNCHANGED <<ENABLE_ENTITY_EXTRACTION, batch, inflight, api>>

\* the calls of the pipeline, each under every behaviour of the services it
\* consults: `reference' is the call with the annotation service answering
\* at once, which shows where the call sends requests
ProcessCalls ==
    /\ calls < MaxCalls
    /\ \E raw \in RawIds :
       \E conv \in Consulted(ResolveStep(raw, ConvQuiet).log, "idconv",
                             ConvOutcomes, ConvQuiet) :
       \E resolved \in {ResolveStep(raw, conv)} :
       \E http \in IF resolved.raised THEN {HttpQuiet} ELSE HttpResponses :
       \E fetched \in {fetch_bioc_paper(resolved.pmc_id, http, BernQuiet)} :
       \E annotated \in {IF resolved.raised \/ fetched.ret = <<>> THEN <<>>
                          ELSE AnnotateStep(fetched.ret[1], BernQuiet).log} :
       \E bern1 \in Consulted(IF resolved.raised THEN <<>> ELSE fetched.log,
                              "bern", BernOutcomes, BernQuiet) :
       \E bern2 \in Consulted(annotated, "bern", BernOutcomes, BernQuiet) :
       \E db_ok \in IF resolved.raised \/ fetched.ret = <<>> THEN {TRUE} ELSE BOOLEAN :
           Process(raw, conv, http, bern1, bern2, db_ok)

DirectCalls ==
    \/ \E caption \in Captions, bern \in BernBehaviours : Annotate(caption, bern)
    \/ \E pmid \in RawIds, conv \in ConvBehaviours : Convert(pmid, conv)

\* the direct fetches, each under every behaviour of the annotation service
\* when it consults it
FetchCalls ==
    /\ calls = 0
    /\ \E http \in FetchResponses :
       \E bern \in Consulted(fetch_bioc_paper("PMC7877219", http, BernQuiet).log, "bern",
                             FetchBernOutcomes, BernQuiet) :
           Fetch("PMC7877219", http, bern)

\* the import of a mapping file before the batch file is created
BatchImports ==
    /\ batch = BatchIdle
    /\ calls = 0
    /\ \E file \in BatchMappingFiles : Import(file)

CreateFiles == \E file_path \in FilePaths, lines \in BatchFiles : CreateFile(file_path, lines)

\* the reading and the availability check, under every answer of the probe
\* and every behaviour of the conversion service for each identifier
Checks ==
    /\ batch.phase = "discovered"
    /\ \E read_ok \in BOOLEAN :
       \E envs \in IF read_ok THEN [1..Len(ReadIds(batch.lines)) -> CheckEnvs]
                   ELSE {<<>>} :
           ReadAndCheck(read_ok, envs)

\* the pipeline call of the next entry, under every answer of the document
\* service and every behaviour of the annotation service it consults
Entries ==
    /\ batch.phase = "chunk-processing"
    /\ batch.position < Len(Flatten(batch.chunks))
    /\ \E http \in HttpResponses :
       \E bern \in Consulted(process_paper_id(Flatten(batch.chunks)[batch.position + 1].pmcid,
                                              ConvQuiet, http, BernQuiet, BernQuiet, TRUE).log,
                             "bern", FetchBernOutcomes, BernQuiet) :
           ProcessEntry(http, bern)

Finishes == \E write_ok \in BOOLEAN : Finish(write_ok)

BatchNext == BatchImports \/ CreateFiles \/ Checks \/ StartChunks \/ Entries \/ Finishes

Imports == \E file \in MappingFiles : Import(file)

Next == ProcessCalls \/ Imports

Spec == Init /\ [][Next]_vars

SpecDirect == Init /\ [][DirectCalls]_vars

SpecFetch == Init /\ [][FetchCalls]_vars

SpecBatch == Init /\ [][BatchNext]_vars

ApiRequests ==
    \E path \in ApiPaths, key \in ApiKeys :
    \E method \in IF path = <<"extract">> THEN {"POST"} ELSE {"GET"} :
    \E paper_ids \in IF path = <<"extract">> THEN ExtractRequests ELSE {<<>>} :
        ApiRequest(method, path, key, paper_ids)

\* the next identifier of the extract request, under every behaviour of the
\* services its pipeline call consults
ExtractEntries ==
    /\ api.phase = "extracting"
    /\ api.position < Len(api.paper_ids)
    /\ \E conv \in Consulted(ResolveStep(api.paper_ids[api.position + 1], ConvQuiet).log,
                              "idconv", ConvOutcomes, ConvQuiet) :
       \E http \in HttpResponses, db_ok \in BOOLEAN :
           ExtractEntry(conv, http, BernQuiet, db_ok)

ApiNext == ApiRequests \/ ExtractEntries \/ ExtractRespond

SpecApi == Init /\ [][ApiNext]_vars

ToolImports == \E file \in ImportFiles : Import(file)

Lookups == \E pmid \in LookupIds : Lookup(pmid)

ToolNext == ToolImports \/ Lookups

SpecTool == Init /\ [][ToolNext]_vars

Prepares ==
    \E c \in Callers, raw \in {"PMC1", "pmc1"}, http \in ConcurrentResponses :
        Prepare(c, raw, http, BernQuiet)

Writes == \E c \in Callers, db_ok \in BOOLEAN : Write(c, db_ok)

ConcurrentNext == Prepares \/ Writes

SpecConcurrent == Init /\ [][ConcurrentNext]_vars

Configures == \E size \in BatchSizes : Configure(size)

ChunkCreates == \E lines \in ChunkFiles : CreateFile("ids.txt", lines)

ChunkNext == Configures \/ ChunkCreates \/ Checks \/ StartChunks \/ Entries \/ Finishes

SpecChunk == Init /\ [][ChunkNext]_vars

FileCreateds == \E event \in WatchFiles : FileCreated(event.src_path, event.lines)

WatchNext == FileCreateds \/ Dispatch \/ Checks \/ StartChunks \/ Entries \/ Finishes

SpecWatch == Init /\ [][WatchNext]_vars

(***************************************************************************)
(* Properties.                                                             *)
(***************************************************************************)
\* canonical form: uppercase, with the PMC prefix exactly once
IsCanonical(id) ==
    /\ upper(id) = id
    /\ startswith(id, "PMC")
    /\ ~startswith(SubSeq(id, 4, Len(id)), "PMC")

\* the identifier carries the primary-namespace prefix, whatever its case
CarriesPrefix(id) == Len(id) >= 3 /\ upper(SubSeq(id, 1, 3)) = "PMC"

\* the identifier has a row in the mapping table
InMappingTable(id) == mapping # <<>> /\ id \in DOMAIN mapping[1]

\* the conversion service gives no mapping within three requests
NoRemoteMapping(conv) ==
    \/ conv.fails >= 3
    \/ \A i \in 1..Len(conv.records) : conv.records[i] = None

\* the row that stores a document
RowOf(doc) ==
    [pmcid |-> doc.pmcid, title |-> doc.title, abstract |-> doc.abstract,
     figures_json |-> doc.figures]

\* the identifiers of the requests of one kind in the log of the last operation
RequestsTo(kind) == SelectEv(last.log, kind)

\* C1: for every raw identifier passed to process, the identifier used for
\* the fetch, returned in the Document and used as the storage key is
\* uppercase and carries the PMC prefix exactly once.
C1_CanonicalIdentifier ==
    last.op = "process" =>
        /\ \A i \in 1..Len(RequestsTo("bioc")) : IsCanonical(RequestsTo("bioc")[i].id)
        /\ last.ret # <<>> => IsCanonical(last.ret[1].pmcid)
        /\ \A row \in publications : IsCanonical(row.pmcid)

\* C2: for an identifier already carrying the PMC prefix (in any case), the
\* resolution step hands it on unchanged up to case, and nothing is
\* requested from any remote service before the fetch: the first request
\* of the call is the fetch and the conversion service is never asked.
C2_PrefixedNoNetwork ==
    (last.op = "process" /\ CarriesPrefix(last.arg)) =>
        /\ upper(last.pmc_id) = upper(last.arg)
        /\ RequestsTo("idconv") = <<>>
        /\ last.log # <<>> /\ Head(last.log).ev = "bioc"

C2_Witness ==
    /\ last.op = "process" /\ last.arg = "pmc1" /\ ~last.raised
    /\ RequestsTo("bioc") # <<>>

\* C3: for a secondary-namespace identifier present in the mapping table,
\* resolution gives the mapped identifier with the PMC prefix enforced and
\* sends no request to the conversion service.
C3_MappedNoConversion ==
    (last.op = "process" /\ ~CarriesPrefix(last.arg) /\ InMappingTable(last.arg)) =>
        LET mapped == mapping[1][last.arg]
        IN  /\ last.pmc_id = IF CarriesPrefix(mapped) THEN mapped ELSE "PMC" \o mapped
            /\ CarriesPrefix(last.pmc_id)
            /\ RequestsTo("idconv") = <<>>

C3_Witness ==
    /\ last.op = "process" /\ last.arg = "7" /\ InMappingTable("7")
    /\ last.pmc_id = "PMC1" /\ RequestsTo("bioc") # <<>>

\* C4: when a secondary-namespace identifier is absent from the mapping
\* table and the remote conversion yields no mapping, process fails: no
\* fetch is issued for any identifier and no Document is returned.
C4_ResolutionFailure ==
    (/\ last.op = "process" /\ ~CarriesPrefix(last.arg)
     /\ ~InMappingTable(last.arg) /\ NoRemoteMapping(last.env.conv)) =>
        /\ last.raised
        /\ last.ret = <<>>
        /\ RequestsTo("bioc") = <<>>

C4_Witness ==
    /\ last.op = "process" /\ last.arg = "7" /\ ~InMappingTable("7")
    /\ NoRemoteMapping(last.env.conv) /\ RequestsTo("idconv") # <<>>
    /\ last.raised

\* C5: a process call never changes the mapping table, whether it resolved
\* by a mapping hit, by the remote conversion, or failed.
C5_MappingReadOnly ==
    [][last'.op = "process" /\ calls' = calls + 1 => mapping' = mapping]_vars

C5_Witness ==
    /\ last.op = "process" /\ last.arg = "7" /\ ~last.raised
    /\ RequestsTo("idconv") # <<>> /\ last.pmc_id = "PMC1"
    /\ ~InMappingTable("7")

\* the requests and sleeps of a retry loop that fails `failures' times and
\* then, if answered, sends one more request: delays as given
RetryLog(kind, id, failures, answered, delay(_)) ==
    [i \in 1..(2 * failures + (IF answered THEN 1 ELSE 0)) |->
        IF i % 2 = 1 THEN Request(kind, id) ELSE Sleep(delay(i \div 2))]

\* C6: the remote conversion sends at most 3 requests per call; after a
\* failed attempt that is not the last it sleeps, 2 then 4; after the third
\* failure it returns no mapping without a further sleep.
C6_ConversionRetry ==
    last.op = "convert" =>
        LET fails == last.env.conv.fails
            Doubling(k) == IF k = 1 THEN 2 ELSE 4
        IN  /\ Len(RequestsTo("idconv")) <= 3
            /\ fails < 3 =>
                   last.log = RetryLog("idconv", last.arg, fails, TRUE, Doubling)
            /\ fails >= 3 =>
                   /\ last.log = RetryLog("idconv", last.arg, 2, TRUE, Doubling)
                   /\ last.ret = <<None>>

C6_Witness ==
    /\ last.op = "convert" /\ last.env.conv.fails >= 3
    /\ Len(RequestsTo("idconv")) = 3 /\ Len(RequestsTo("sleep")) = 2

\* C7: annotate on a text shorter than 20 characters returns the empty
\* sequence and sends no request.
C7_ShortTextSkipped ==
    (last.op = "annotate" /\ Len(last.arg) < 20) =>
        /\ last.ret = << <<>> >>
        /\ last.log = <<>>

C7_Witness ==
    /\ last.op = "annotate" /\ Len(last.arg) = 19 /\ ENABLE_ENTITY_EXTRACTION
    /\ last.env.bern1.fails = 0

\* C8: when every request fails, annotate sends exactly 3 requests, sleeps
\* 2 * attempt_number after each failed attempt (2, 4, 6), and returns the
\* empty sequence.
C8_AnnotateRetry ==
    (/\ last.op = "annotate" /\ ENABLE_ENTITY_EXTRACTION /\ Len(last.arg) >= 20
     /\ last.env.bern1.fails = MaxFails) =>
        LET Progressive(k) == 2 * k
        IN  /\ last.log = RetryLog("bern", last.arg, 3, FALSE, Progressive)
            /\ Len(RequestsTo("bern")) = 3
            /\ last.ret = << <<>> >>

C8_Witness ==
    /\ last.op = "annotate" /\ ENABLE_ENTITY_EXTRACTION /\ Len(last.arg) >= 20
    /\ last.env.bern1.fails = MaxFails /\ Len(last.log) = 6

\* C9: when entity extraction is disabled, no operation sends a request to
\* the annotation service and every figure of every stored Document has an
\* empty entity list.
C9_DisabledNoAnnotation ==
    ~ENABLE_ENTITY_EXTRACTION =>
        /\ RequestsTo("bern") = <<>>
        /\ \A row \in publications :
               \A i \in 1..Len(row.figures_json) : row.figures_json[i].entities = <<>>

C9_Witness ==
    /\ ~ENABLE_ENTITY_EXTRACTION
    /\ last.op = "process"
    /\ \E row \in publications :
           \E i \in 1..Len(row.figures_json) : Len(row.figures_json[i].caption) > 20

\* C10: the store never holds two rows for one identifier, and after a
\* process call whose write was applied the single row of the returned
\* Document's identifier holds exactly the returned content, also when a
\* row for that identifier was there before.
C10_UpsertIdempotent ==
    /\ \A r1, r2 \in publications : r1.pmcid = r2.pmcid => r1 = r2
    /\ (/\ last.op = "process" /\ ~last.raised
        /\ RequestsTo("insert") \o RequestsTo("replace") # <<>>) =>
            {row \in publications : row.pmcid = last.ret[1].pmcid} = {RowOf(last.ret[1])}

C10_Witness ==
    /\ last.op = "process" /\ ~last.raised
    /\ RequestsTo("replace") # <<>>
    /\ Cardinality(publications) = 1

\* the requests sent to the annotation service for one caption in the last operation
AnnotationRequestsFor(caption) ==
    SelectSeq(RequestsTo("bern"), LAMBDA e : e.id = caption)

\* C11: during a process call with entity extraction enabled, every figure
\* whose caption is longer than 20 characters has the annotator called for it
\* and carries the annotator's result; every figure whose caption has 20
\* characters or fewer has an empty entity list and no request is sent to
\* the annotation service for it.
C11_ThresholdAnnotation ==
    (last.op = "process" /\ ~last.raised /\ ENABLE_ENTITY_EXTRACTION) =>
        \A i \in 1..Len(last.ret[1].figures) :
            LET figure == last.ret[1].figures[i]
            IN  IF Len(figure.caption) > 20
                THEN /\ AnnotationRequestsFor(figure.caption) # <<>>
                     /\ figure.entities =
                            fetch_entities_from_bern(figure.caption, last.env.bern2).ret
                ELSE /\ AnnotationRequestsFor(figure.caption) = <<>>
                     /\ figure.entities = <<>>

\* C12: a fetch contacts the annotation service zero times and yields
\* every figure with an empty entity list; annotation is left to the
\* annotation step of the pipeline.
C12_FetchNoAnnotation ==
    last.op = "fetch" =>
        /\ RequestsTo("bern") = <<>>
        /\ last.ret # <<>> =>
               \A i \in 1..Len(last.ret[1].figures) : last.ret[1].figures[i].entities = <<>>

\* what the fetch extracts from one document taken alone
AloneIn(document, bern) ==
    ParseDocuments(<<document>>,
                   [title |-> "", abstract |-> "", figures |-> <<>>, log |-> <<>>], bern)

\* the first document that supplies a field, 0 when none does
FirstSupplying(documents, field, bern) ==
    LET supplying == {i \in 1..Len(documents) : Truthy(AloneIn(documents[i], bern)[field])}
    IN  IF supplying = {} THEN 0 ELSE CHOOSE i \in supplying : \A j \in supplying : i <= j

RECURSIVE FiguresAcross(_, _)
\* the figures of the documents, one document after the other
FiguresAcross(documents, bern) ==
    IF documents = <<>> THEN <<>>
    ELSE AloneIn(Head(documents), bern).figures \o FiguresAcross(Tail(documents), bern)

\* the last operation is a fetch that returned a Document
FetchReturned == last.op = "fetch" /\ last.env.http.kind = "ok" /\ last.ret # <<>>

\* C13: when the response holds several documents, the title of the result
\* is the title of the first document that supplies one and the abstract is
\* the abstract of the first document that supplies one (later documents
\* neither overwrite nor extend them), while the figures of all documents
\* accumulate.
C13_FirstFoundWins ==
    FetchReturned =>
        LET documents == last.env.http.body.documents
            bern == last.env.bern1
            t == FirstSupplying(documents, "title", bern)
            a == FirstSupplying(documents, "abstract", bern)
        IN  /\ t # 0 => last.ret[1].title = AloneIn(documents[t], bern).title
            /\ a # 0 => last.ret[1].abstract = AloneIn(documents[a], bern).abstract
            /\ a = 0 => last.ret[1].abstract = ""
            /\ last.ret[1].figures = FiguresAcross(documents, bern)

\* the passage carries one of the tags (infons with the given keys and values)
Tagged(passage, tags) ==
    \E i \in 1..Len(passage.infons) :
        <<passage.infons[i].key, passage.infons[i].text>> \in tags

TitleTags == { <<"section_type", "TITLE">>, <<"type", "title">> }
AbstractTags == { <<"section_type", "ABSTRACT">>, <<"type", "abstract">> }
FigureTags == { <<"section_type", "FIG">>, <<"section_type", "FIGURE">>,
                <<"type", "fig">>, <<"type", "figure-caption">> }

RECURSIVE PassagesOf(_)
\* the passages of the documents, in source order
PassagesOf(documents) ==
    IF documents = <<>> THEN <<>>
    ELSE Head(documents).passages \o PassagesOf(Tail(documents))

RECURSIVE DocumentInfons(_)
\* the document-level attributes of the documents, in source order
DocumentInfons(documents) ==
    IF documents = <<>> THEN <<>>
    ELSE Head(documents).infons \o DocumentInfons(Tail(documents))

\* the passages with text that carry one of the tags, in source order
TaggedPassages(documents, tags) ==
    SelectSeq(PassagesOf(documents), LAMBDA p : Tagged(p, tags) /\ Truthy(p.text))

\* the title attributes with text among the attributes
TitleAttributes(infons) ==
    SelectSeq(infons, LAMBDA infon : infon.key = "article-title" /\ Truthy(infon.text))

\* the title by the fallback order: title passage, document attribute,
\* collection attribute
TitleByFallback(body) ==
    LET passages == TaggedPassages(body.documents, TitleTags)
        of_documents == TitleAttributes(DocumentInfons(body.documents))
        of_collection == TitleAttributes(body.infons)
    IN  IF passages # <<>> THEN passages[1].text
        ELSE IF of_documents # <<>> THEN of_documents[1].text
        ELSE IF of_collection # <<>> THEN of_collection[1].text
        ELSE ""

\* C14: the title of a fetched Document follows the fallback order: the
\* text of the first title-tagged passage that has text; else a
\* document-level title attribute; else a collection-level title attribute.
C14_TitleFallbackOrder ==
    FetchReturned => last.ret[1].title = TitleByFallback(last.env.http.body)

\* the url of a figure passage: its last url, file or fig_url attribute
UrlOf(passage) ==
    LET urls == SelectSeq(passage.infons, LAMBDA infon : infon.key \in {"url", "file", "fig_url"})
    IN  IF urls = <<>> THEN None ELSE urls[Len(urls)].text

\* C15: every figure-tagged passage with text yields exactly one Figure:
\* the number of figures is the number of such passages, also when a
\* passage carries more than one figure tag, and each passage has as many
\* figures with its text as caption and its last url attribute as url as it
\* occurs in the response.
C15_OneFigurePerPassage ==
    FetchReturned =>
        LET passages == TaggedPassages(last.env.http.body.documents, FigureTags)
            figures == last.ret[1].figures
        IN  /\ Len(figures) = Len(passages)
            /\ \A k \in 1..Len(passages) :
                   Cardinality({i \in 1..Len(figures) :
                                   /\ figures[i].caption = passages[k].text
                                   /\ figures[i].url = UrlOf(passages[k])})
                       = Cardinality({j \in 1..Len(passages) : passages[j] = passages[k]})

\* the place of a caption in the source: the index of the first
\* figure-tagged passage with that text
PlaceOf(caption, passages) ==
    CHOOSE k \in 1..Len(passages) :
        /\ passages[k].text = caption
        /\ \A j \in 1..(k - 1) : passages[j].text # caption

\* C16: the figures of a fetched Document are in the order in which their
\* passages are encountered in the source, whatever figure tags the
\* passages carry: a figure never precedes a figure whose passage comes
\* earlier in the source.
C16_FiguresInSourceOrder ==
    FetchReturned =>
        LET passages == TaggedPassages(last.env.http.body.documents, FigureTags)
            figures == last.ret[1].figures
        IN  \A i, j \in 1..Len(figures) :
                i < j => PlaceOf(figures[i].caption, passages)
                             <= PlaceOf(figures[j].caption, passages)

RECURSIVE SpaceJoined(_)
\* the texts of the passages joined with single spaces
SpaceJoined(passages) ==
    IF passages = <<>> THEN ""
    ELSE IF Len(passages) = 1 THEN passages[1].text
    ELSE passages[1].text \o " " \o SpaceJoined(Tail(passages))

\* C17: the abstract of a fetched Document is the space-joined
\* concatenation, in source order, of the texts of all abstract-tagged
\* passages, each passage contributing once; with no abstract passage it is
\* the empty string and the Document is still returned when a title or a
\* figure was found.
C17_AbstractJoined ==
    FetchReturned =>
        last.ret[1].abstract =
            SpaceJoined(TaggedPassages(last.env.http.body.documents, AbstractTags))

\* the answer of the document service for an identifier that does not exist
NotFound == [kind |-> "not_found", body |-> XmlEmpty]

\* C18: a response from which no title, abstract or figure is extracted
\* fails the fetch with an outcome that its caller can tell from the
\* outcome of a not-found answer: the value returned by the fetch, or the
\* error raised by process, differs between the two.
C18_FetchErrorNotNotFound ==
    /\ (last.op = "fetch" /\ last.env.http.kind = "ok" /\ last.ret = <<>>) =>
           last.ret # fetch_bioc_paper(last.arg, NotFound, last.env.bern1).ret
    /\ (/\ last.op = "process" /\ last.env.http.kind = "ok"
        /\ RequestsTo("bioc") # <<>> /\ last.raised) =>
           LET not_found == process_paper_id(last.arg, last.env.conv, NotFound,
                                             last.env.bern1, last.env.bern2, last.env.db_ok)
           IN  <<last.raised, last.error>> # <<not_found.raised, not_found.error>>

\* the phases a handled file goes through, in order, before its terminal status
HandlingPhases == <<"discovered", "availability-checked", "chunk-processing">>

\* a step of the handling: to the next phase, from the last phase to
\* completed, or from any phase to failed
LifecycleStep(from, to) ==
    \/ from = to
    \/ from = "idle" /\ to = HandlingPhases[1]
    \/ \E k \in 1..(Len(HandlingPhases) - 1) : from = HandlingPhases[k] /\ to = HandlingPhases[k + 1]
    \/ from = HandlingPhases[Len(HandlingPhases)] /\ to = "completed"
    \/ (\E k \in 1..Len(HandlingPhases) : from = HandlingPhases[k]) /\ to = "failed"

\* the names of the file in the watch folder agree with its phase
NamesAgree(b) ==
    LET original == b.path \in b.dir
        completed == (b.path \o ".completed") \in b.dir
        failed == (b.path \o ".failed") \in b.dir
    IN  /\ b.phase = "completed" =>
               /\ completed /\ ~failed /\ ~original
               /\ b.sidecar # <<>> /\ (b.path \o ".processed") \in b.dir
        /\ b.phase = "failed" => failed /\ ~completed /\ ~original
        /\ (\E k \in 1..Len(HandlingPhases) : b.phase = HandlingPhases[k]) =>
               original /\ ~completed /\ ~failed

\* C19: every discovered .txt file goes through discovered,
\* availability-checked, chunk-processing and then one terminal status:
\* once its handling has returned it carries the completed suffix (with the
\* summary sidecar written) or the failed suffix, never both, and is no
\* longer present under its original name; before that it keeps its name.
C19_FileLifecycle ==
    [][LifecycleStep(batch.phase, batch'.phase) /\ NamesAgree(batch')]_vars

C19_Witness ==
    /\ batch.phase = "completed"
    /\ batch.success_count = 1 /\ batch.fail_count = 1
    /\ batch.dir = {"ids.txt.completed", "ids.txt.processed"}

\* the loop over the available entries has finished and the handling returns
LoopFinished(b) == b.phase = "chunk-processing" /\ b.position = Len(b.available)

\* the summary of a completed file counts what the handling counted
SummaryAgrees(b) ==
    /\ b.sidecar # <<>>
    /\ b.sidecar[1].total = Len(b.paper_ids)
    /\ b.sidecar[1].available = Len(b.available)
    /\ b.sidecar[1].skipped = Len(b.unavailable)
    /\ b.sidecar[1].success = b.success_count
    /\ b.sidecar[1].failed = b.fail_count
    /\ b.success_count + b.fail_count = Len(b.available)
    /\ Len(b.available) + Len(b.unavailable) = Len(b.paper_ids)

AvailableIds(b) == [i \in 1..Len(b.available) |-> b.available[i].pmcid]

\* C21: in batch processing a pipeline failure of one available entry is
\* caught and counted as failed and does not abort the batch: the loop goes
\* on with the next entry, and when the loop has finished every available
\* entry has been passed to the pipeline, once and in order.
C21_EntryFailureCounted ==
    [][/\ (batch.phase = "chunk-processing" /\ batch.position < Len(batch.available)
             /\ batch' # batch)
           => /\ batch'.phase = "chunk-processing"
              /\ batch'.position = batch.position + 1
              /\ batch'.invoked = Append(batch.invoked, batch.available[batch.position + 1].pmcid)
              /\ last'.op = "process" /\ last'.arg = batch.available[batch.position + 1].pmcid
              /\ batch'.fail_count = batch.fail_count + (IF last'.raised THEN 1 ELSE 0)
              /\ batch'.success_count = batch.success_count + (IF last'.raised THEN 0 ELSE 1)
       /\ (batch.phase = "chunk-processing" /\ batch'.phase # "chunk-processing")
           => batch.invoked = AvailableIds(batch)]_vars

\* the first of two available entries failed and the second was still
\* processed, successfully
C21_Witness ==
    /\ batch.phase = "chunk-processing"
    /\ Len(batch.available) = 2 /\ batch.invoked = AvailableIds(batch)
    /\ batch.fail_count = 1 /\ batch.success_count = 1
    /\ last.op = "process" /\ ~last.raised

\* a probe request for the primary identifier was sent during the check
Probed(b, pmcid) ==
    \E k \in 1..Len(b.log) : b.log[k] = Request("head", EnsurePrefix(pmcid))

\* the number of entries of a list of identifiers equal to one identifier
RECURSIVE CountOf(_, _)
CountOf(ids, id) ==
    IF ids = <<>> THEN 0
    ELSE (IF Head(ids) = id THEN 1 ELSE 0) + CountOf(Tail(ids), id)

\* the identifiers of the available entries as they stood in the file
AvailableSources(b) == [i \in 1..Len(b.available) |-> b.available[i].id]

\* C22: the availability check partitions the identifiers of the file: every
\* entry placed in available is resolved to a primary identifier and was
\* put to the existence probe, whichever path resolved it, and every other
\* identifier is placed in unavailable.
C22_AvailableProbed ==
    batch.phase \in {"availability-checked", "chunk-processing", "completed"} =>
        /\ \A i \in 1..Len(batch.available) :
               /\ IsPMCID(batch.available[i].pmcid)
               /\ Probed(batch, batch.available[i].pmcid)
        /\ \A i \in 1..Len(batch.paper_ids) :
               CountOf(batch.paper_ids, batch.paper_ids[i])
                   = CountOf(AvailableSources(batch), batch.paper_ids[i])
                     + CountOf(batch.unavailable, batch.paper_ids[i])

\* no handling is in progress
HandlerFree(b) == b.phase \in {"idle", "completed", "failed"}

\* the pipeline invocations of each handling stand together in the history
Contiguous(history) ==
    \A i, k \in 1..Len(history) :
        (i < k /\ history[i] = history[k]) => \A j \in i..k : history[j] = history[i]

\* C23: file-created events are handled one at a time: the handling of a
\* file starts only while no handling of another file is in progress, and
\* the pipeline invocations of two files never interleave.
C23_OneFileAtATime ==
    [][/\ batch'.serial # batch.serial => HandlerFree(batch)
       /\ batch'.path # batch.path => HandlerFree(batch)
       /\ Len(batch'.history) > Len(batch.history)
              => batch'.path = batch.path /\ batch'.serial = batch.serial
       /\ Contiguous(batch'.history)]_vars

\* a second file was created while the first is being handled: its event
\* waits in the queue after the first pipeline invocation of the first file
C23_Witness ==
    /\ batch.phase = "chunk-processing" /\ batch.path = "ids.txt"
    /\ batch.serial = 1 /\ batch.history = <<1>>
    /\ Len(batch.pending) = 1 /\ batch.pending[1].src_path = "more.txt"

\* the places in the order of writes of the writes of one identifier
WritesOf(writes, pmcid) == {k \in 1..Len(writes) : writes[k].pmcid = pmcid}

\* the last write of one identifier
LastWrite(writes, pmcid) ==
    writes[CHOOSE k \in WritesOf(writes, pmcid) : \A j \in WritesOf(writes, pmcid) : j <= k]

\* C24: when concurrent process calls upsert the same canonical identifier,
\* the store holds exactly one row for it, whose title, abstract and figures
\* are entirely those of the write that came last; no row mixes the fields
\* of two writes.
C24_LastWriteWins ==
    /\ \A k \in 1..Len(inflight.writes) :
           {row \in publications : row.pmcid = inflight.writes[k].pmcid}
               = {RowOf(LastWrite(inflight.writes, inflight.writes[k].pmcid))}
    /\ \A row \in publications : \E k \in 1..Len(inflight.writes) : row = RowOf(inflight.writes[k])

\* two callers prepared different contents of the same identifier before
\* either wrote, and both have written: the row is the second write's
C24_Witness ==
    /\ \A c \in Callers : inflight.pc[c] = "returned"
    /\ Len(inflight.writes) = 2
    /\ inflight.writes[1].pmcid = inflight.writes[2].pmcid
    /\ inflight.writes[1].title # inflight.writes[2].title
    /\ inflight.writes[1].abstract # inflight.writes[2].abstract
    /\ inflight.writes[1].figures # inflight.writes[2].figures
    /\ publications = {RowOf(inflight.writes[2])}

\* the file handed to the last import holds the line at some place
HoldsLine(file, line) == file # <<>> /\ \E k \in 1..Len(file[1]) : file[1][k] = line

\* the mapping table holds the mapping of an identifier
Maps(pmid, pmcid) == mapping # <<>> /\ pmid \in DOMAIN mapping[1] /\ mapping[1][pmid] = pmcid

\* C25: importing a mapping file that holds the line
\* file.pdf<TAB>Some Title<TAB>PMC123<TAB>PMID:999<TAB>CC-BY produces the
\* mapping 999 -> PMC123 in the mapping table, wherever the line stands in
\* the file, its first or only line included.
C25_SampleLineImported ==
    (last.op = "import" /\ HoldsLine(last.file, SampleLine)) => Maps("999", "PMC123")

\* a line of a mapping file that is neither blank nor a comment
IsDataLine(line) == strip(line) # "" /\ ~startswith(strip(line), "#")

\* a data line from which no mapping can be parsed
Unparseable(line) == IsDataLine(line) /\ ParseMappingLine(strip(line)) = <<>>

\* a data line from which a mapping can be parsed
Parseable(line) == IsDataLine(line) /\ ParseMappingLine(strip(line)) # <<>>

\* C26: each import of an existing mapping file drops and recreates the
\* mapping table: afterwards the table holds only mappings parsed from that
\* file, each unparseable line of the file is counted as an error, and a
\* line that follows an unparseable line is still imported.
C26_ImportRecreates ==
    (last.op = "import" /\ last.file # <<>>) =>
        LET lines == last.file[1]
        IN  /\ mapping # <<>>
            /\ \A pmid \in DOMAIN mapping[1] :
                   \E k \in 1..Len(lines) :
                       /\ Parseable(lines[k])
                       /\ ParseMappingLine(strip(lines[k])) = <<pmid, mapping[1][pmid]>>
            /\ last.ret[2] = Cardinality({k \in 1..Len(lines) : Unparseable(lines[k])})
            /\ \A j, k \in 1..Len(lines) :
                   (j < k /\ Unparseable(lines[j]) /\ Parseable(lines[k]))
                       => ParseMappingLine(strip(lines[k]))[1] \in DOMAIN mapping[1]

\* C27: POST /extract returns exactly one result per submitted identifier,
\* in request order, each with status success or failed; a failed
\* identifier is reported in its own entry with an error message, and its
\* failure neither ends the loop nor changes the tables the remaining
\* identifiers are processed with.
C27_ResultPerIdentifier ==
    [][/\ (api.phase = "extracting" /\ api.position < Len(api.paper_ids) /\ api' # api)
           => /\ api'.phase = "extracting"
              /\ api'.position = api.position + 1
              /\ Len(api'.results) = Len(api.results) + 1
              /\ SubSeq(api'.results, 1, Len(api.results)) = api.results
              /\ api'.results[Len(api'.results)].status = "failed"
                     => publications' = publications /\ mapping' = mapping
       /\ (api'.route = "extract_papers" /\ api'.phase = "responded" /\ api'.key = API_KEY)
           => /\ api'.status = 200
              /\ Len(api'.results) = Len(api'.paper_ids)
              /\ \A i \in 1..Len(api'.results) :
                     /\ api'.results[i].id = api'.paper_ids[i]
                     /\ api'.results[i].status \in {"success", "failed"}
                     /\ api'.results[i].status = "failed"
                            => api'.results[i].error \notin {None, ""}
                     /\ api'.results[i].status = "success" => api'.results[i].error = None]_vars

\* the first identifier of a request failed in its resolution, the second
\* was still extracted: the response holds both entries in request order
C27_Witness ==
    /\ api.route = "extract_papers" /\ api.phase = "responded" /\ api.status = 200
    /\ api.paper_ids = <<"7", "PMC1">>
    /\ api.results[1] = ExtractResult("7", "failed",
                            "Failed to fetch paper: PMID 7 has no corresponding PMCID", None)
    /\ api.results[2] = ExtractResult("PMC1", "success", None, None)
    /\ \E row \in publications : row.pmcid = "PMC1"

\* the storage reads and the pipeline calls of the request
Accesses(a) == a.log

\* C28: every API route (extract, paper lookup, db-stats, CSV exports)
\* compares the shared-secret header for equality with the configured
\* secret: a request whose header differs is answered as forbidden, before
\* any pipeline call or storage read, and leaves the tables as they were; a
\* request whose header equals the secret is never answered as forbidden.
\* (A request that matches no route reaches no handler and is not concerned.)
C28_ForbiddenBeforeAccess ==
    [][/\ (api'.phase # "idle" /\ api'.route # "" /\ api'.key # API_KEY)
           => /\ api'.phase = "responded" /\ api'.status = 403
              /\ Accesses(api') = <<>> /\ api'.results = <<>> /\ api'.body = <<>>
              /\ publications' = publications /\ mapping' = mapping /\ last' = last
       /\ (api'.phase # "idle" /\ api'.route # "" /\ api'.key = API_KEY)
              => api'.status # 403]_vars

\* an extract request with the other default of the secret is forbidden
\* although the store holds a paper and the request names identifiers
C28_Witness ==
    /\ api.route = "extract_papers" /\ api.key = "your-default-api-key"
    /\ api.paper_ids = <<"7", "PMC1">>
    /\ api.phase = "responded" /\ api.status = 403
    /\ publications # {}

\* C29: whenever process returns a Document, a row keyed by the Document's
\* canonical identifier with the same title, abstract and figures is present
\* in storage; a storage write error is never reported as a successful
\* process.
C29_SuccessMeansStored ==
    (last.op = "process" /\ ~last.raised /\ last.ret # <<>>) =>
        /\ RowOf(last.ret[1]) \in publications
        /\ last.env.db_ok

\* C30: a process call that fails (resolution failure, not found, or
\* fetch/extraction error) leaves the publications store unchanged: no row
\* is inserted and an existing row for that identifier keeps its content.
C30_FailureLeavesStore ==
    [][(calls' = calls + 1 /\ last'.op = "process" /\ last'.raised)
           => publications' = publications /\ last'.ret = <<>>]_vars

\* a second call for a stored paper failed in its fetch; the row is kept
C30_Witness ==
    /\ last.op = "process" /\ last.raised /\ calls = 2
    /\ last.error = "Failed to fetch paper with ID: PMC1"
    /\ \E row \in publications : row.pmcid = "PMC1" /\ row.title = "A study"

\* the loop of extract_papers is about to handle the identifier
NextIdentifier(a, pid) ==
    /\ a.phase = "extracting" /\ a.position < Len(a.paper_ids)
    /\ a.paper_ids[a.position + 1] = pid

\* C31: after POST /extract has reported success for an identifier,
\* submitting the same identifier again (same spelling, primary or secondary
\* namespace) is answered from storage: its entry is a success and the
\* pipeline is not invoked (no fetch, no annotation, no write).
C31_ResubmissionFromStorage ==
    [][\A pid \in api.reported :
           (NextIdentifier(api, pid) /\ api' # api)
               => /\ api'.results[Len(api'.results)].status = "success"
                  /\ api'.log = Append(api.log, Request("select", pid))
                  /\ last' = last /\ publications' = publications]_vars

\* the rows of the documents whose canonical identifier is mapped to the
\* secondary identifier in the mapping table
MappedDocuments(pmid) ==
    IF mapping = <<>> \/ pmid \notin DOMAIN mapping[1] THEN {}
    ELSE {row \in publications : row.pmcid = EnsurePrefix(mapping[1][pmid])}

\* C32: GET /papers/{id} with a secondary-namespace identifier returns only
\* the document whose canonical identifier is the PMCID mapped to it, never
\* the stored document of another paper whose PMC number equals the digits
\* of the PMID, and returns not-found when no mapped document is stored.
C32_LookupByMapping ==
    (api.route = "get_paper" /\ api.phase = "responded" /\ api.key = API_KEY
         /\ ~IsPMCID(api.arg)) =>
        IF MappedDocuments(api.arg) = {}
        THEN api.status = 404
        ELSE api.status = 200 /\ api.body[1] \in MappedDocuments(api.arg)

C34_ChunkingOnlyGranularity ==
    /\ batch.phase = "chunk-processing"
           => batch.invoked = SubSeq(AvailableIds(batch), 1, batch.position)
    /\ batch.phase = "completed"
           => /\ batch.invoked = AvailableIds(batch)
              /\ batch.sidecar[1].success + batch.sidecar[1].failed = Len(batch.available)
    /\ batch.phase = "failed" => batch.error \in {"read", "write"}

\* the names under which files are put into the watch folder from outside
CreatedNames == {f.src_path : f \in WatchFiles}

\* the names the handler itself has produced in the watch folder
ProducedNames(b) == b.dir \ CreatedNames

\* C35: the files the watcher produces in the watched directory (the summary
\* sidecar and the source renamed to the completed or failed suffix) never
\* match the watched .txt suffix, so the event of a produced file starts no
\* handling, a handling starts only for a file put into the folder that is
\* still there under its name, and each such file is handled at most once.
C35_ProducedFilesIgnored ==
    [][/\ \A name \in ProducedNames(batch') : ~endswith(name, ".txt")
       /\ batch'.serial # batch.serial
              => IF Head(batch.pending).src_path \in ProducedNames(batch)
                 THEN batch'.phase = batch.phase /\ batch'.path = batch.path
                      /\ batch'.dir = batch.dir
                 ELSE batch'.phase = "discovered"
                          => /\ batch'.path \in CreatedNames \cap batch.dir
                             /\ \A k \in 1..Len(batch'.pending) :
                                    batch'.pending[k].src_path # batch'.path]_vars

\* the first file was completed, the events of its sidecar and of its new
\* name were dispatched and ignored, and the handler is free again
C35_Witness ==
    /\ batch.phase = "completed" /\ batch.path = "ids.txt"
    /\ batch.dir = {"ids.txt.completed", "ids.txt.processed"}
    /\ batch.serial = 3 /\ batch.pending = <<>>
    /\ batch.history = <<1, 1>>

\* something can be extracted from the response: a title by the fallback
\* order, an abstract passage with text or a figure passage with text
Extractable(body) ==
    \/ TitleByFallback(body) # ""
    \/ TaggedPassages(body.documents, AbstractTags) # <<>>
    \/ TaggedPassages(body.documents, FigureTags) # <<>>

\* C36: fetch returns a Document whenever at least one of title, abstract
\* or figures could be extracted from the response, also when the only
\* title attribute of the response is present with empty text.
C36_DocumentWhenExtractable ==
    (last.op = "fetch" /\ last.env.http.kind = "ok"
        /\ Extractable(last.env.http.body)) => last.ret # <<>>

\* the same for the responses whose title attributes, if any, have text
C36_DocumentWhenTitleAttributesFilled ==
    (last.op = "fetch" /\ last.env.http.kind = "ok"
        /\ Extractable(last.env.http.body)
        /\ LET infons == last.env.http.body.infons
                              \o AllInfons(last.env.http.body.documents)
           IN  \A i \in 1..Len(infons) :
                   infons[i].key = "article-title" => Truthy(infons[i].text))
        => last.ret # <<>>

\* C37: a GET request for /papers/csv with the valid key is served by the
\* all-papers export handler, whose body is made of every stored paper, not
\* by the single-paper lookup handler with paper_id = "csv".
C37_ExportPathServedByExport ==
    (api.phase = "responded" /\ api.method = "GET" /\ api.path = <<"papers", "csv">>
        /\ api.key = API_KEY)
        => /\ api.route = "get_all_papers_csv"
           /\ api.status = 200
           /\ api.log = <<Request("select", "")>>

\* the same request is served by the single-paper lookup with paper_id = "csv"
C37_ExportPathServedByLookup ==
    (api.phase = "responded" /\ api.method = "GET" /\ api.path = <<"papers", "csv">>
        /\ api.key = API_KEY)
        => api.route = "get_paper" /\ api.arg = "csv" /\ api.status = 404

\* the annotator was answered: it is enabled, the caption is long enough and
\* the service answers one of the attempts
AnnotateAnswered ==
    /\ last.op = "annotate"
    /\ ENABLE_ENTITY_EXTRACTION
    /\ Len(last.arg) >= MinCaptionLen
    /\ last.env.bern1.fails < BernMaxRetries

\* the value of a key of a response object, or the default when it is missing
ValueOr(object, key, default) == IF key \in DOMAIN object THEN object[key] ELSE default

\* C38: each Entity returned by annotate is derived from one annotation of
\* the response, in response order: a missing mention gives the empty text,
\* a missing type gives "unknown", missing span bounds give 0, and the
\* identifier is the first element of the id list when that list is
\* non-empty and absent otherwise.
C38_EntityDefaults ==
    AnnotateAnswered =>
        LET annotations == last.env.bern1.annotations
            entities == last.ret[1]
        IN  /\ Len(entities) = Len(annotations)
            /\ \A k \in 1..Len(annotations) :
                   LET ann == annotations[k]
                       span == ValueOr(ann, "span", <<>>)
                       ids == ValueOr(ann, "id", <<>>)
                   IN  /\ entities[k].text = ValueOr(ann, "mention", "")
                       /\ entities[k].type = ValueOr(ann, "obj", "unknown")
                       /\ entities[k].start = ValueOr(span, "begin", 0)
                       /\ entities[k].end = ValueOr(span, "end", 0)
                       /\ entities[k].identifier = IF ids = <<>> THEN None ELSE Head(ids)

\* the service answered the third attempt with an annotation without
\* mention, with an empty id list and a span without end, and one with a
\* mention only
C38_Witness ==
    /\ AnnotateAnswered
    /\ last.env.bern1.fails = 2
    /\ last.ret[1] = << [text |-> "", type |-> "disease", identifier |-> None,
                         start |-> 5, end |-> 0],
                        [text |-> "TNF", type |-> "unknown", identifier |-> None,
                         start |-> 0, end |-> 0] >>

====
